---- MODULE Spec2Model ----
(***************************************************************************)
(* Model of the TradingView Pine Script downloader                         *)
(* (src/tv_downloader_enhanced.py).                                        *)
(*                                                                         *)
(* Spec:       the clipboard extraction loop of                            *)
(*             EnhancedTVScraper.extract_pine_source, the batch driver     *)
(*             download_all and the single-URL flow of main.               *)
(* SpecSave:   the bytes save_script and main leave in the .pine file.     *)
(* SpecResume: the resume scan and the worklist of a later batch run.      *)
(* SpecSession: the browser session of download_all: setup, the isolated   *)
(*             context of a Target, the restarts and cleanup, with page    *)
(*             closures and failing close, stop and launch as inputs.      *)
(* SpecChecker: run and worker of src/analyze/check_removed_fast.py.       *)
(* SpecDates:  the date normalizers parse_pubtext                          *)
(*             (src/analyze/scrape_pubdates.py), parse_date_string         *)
(*             (src/analyze/merge_pubdates_with_pines.py) and the parsing  *)
(*             part of extract_exact_publish_date.                         *)
(* SpecCapture: one capture attempt over the four capture channels.        *)
(* SpecNorm:   _normalize_source and the second decoding of save_script.   *)
(* SpecOverlays: the three passes of handle_overlays over a small DOM.     *)
(* SpecListing: the generated listing pages of get_scripts_from_listing.   *)
(* SpecJson:   the loop of src/download_from_json.py with its subprocess.  *)
(* SpecCheckerFair: SpecChecker with the fairness of the event loop.       *)
(* SpecPub:    run and worker of src/analyze/scrape_pubdates.py.           *)
(*                                                                         *)
(* In Spec, SpecSave and SpecResume browser and file operations are taken  *)
(* to succeed.                                                             *)
(*                                                                         *)
(* Texts of the orchestrator are sequences of tokens: " " is white space,  *)
(* "V" stands for one Pine marker ("//@version", "indicator(", "library(", *)
(* "plot("), "x" for any other character. Texts that reach a file are      *)
(* sequences of characters.                                                *)
(***************************************************************************)
EXTENDS Integers, Sequences, FiniteSets, TLC

\* ------------------------------------------------------------ bounds
\* Number of Targets in the worklist of one batch run.
NumTargets == 2

\* ------------------------------------------------------- program constants
\* extract_pine_source: max_retries = 3 (max_retries_four: one pass more)
max_retries_four == 3 + 1

max_retries == 3
\* download_all: max_attempts = 1 if fast_mode else 3 (fast_mode is never set);
\* max_attempts_four: one invocation more
max_attempts_four == 3 + 1

max_attempts == 3
\* _snippet_matches: a.strip()[:200]
SnippetLen == 200

\* ------------------------------------------------------------ texts
Empty == << >>

\* Texts a capture channel can hand back: every channel filters on a marker.
CapTexts == { <<"V">>, <<"V", "x">>, <<" ", "V", " ">> }

\* Texts the visible-DOM extraction can hand back ('' included).
VisTexts == { Empty, <<" ">>, <<"V">>, <<"V", "x">>, <<"x", "V">>, <<" ", "V">> }

IsSpace(c) == c = " "

\* str.strip()
RECURSIVE LStrip(_)
LStrip(s) == IF s # Empty /\ IsSpace(Head(s)) THEN LStrip(Tail(s)) ELSE s

RECURSIVE RStrip(_)
RStrip(s) ==
    IF s # Empty /\ IsSpace(s[Len(s)]) THEN RStrip(SubSeq(s, 1, Len(s) - 1)) ELSE s

Strip(s) == RStrip(LStrip(s))

\* s[:n]
Take(s, n) == SubSeq(s, 1, IF Len(s) < n THEN Len(s) ELSE n)

\* a in b (substring)
Occurs(a, b) ==
    \E i \in 0..(Len(b) - Len(a)) : SubSeq(b, i + 1, i + Len(a)) = a

\* The marker test every capture channel applies to what it read.
IsPlausible(t) == \E i \in 1..Len(t) : t[i] = "V"

\* extract_pine_source._snippet_matches(a, b), called as (page_visible, source_code)
_snippet_matches(a, b) ==
    IF a = Empty \/ b = Empty THEN TRUE
    ELSE LET a_snip == Take(Strip(a), SnippetLen)
             b_snip == Take(Strip(b), SnippetLen)
         IN  IF a_snip = Empty THEN TRUE
             ELSE Occurs(a_snip, b) \/ Occurs(b_snip, a)

\* hashlib.sha256(source_code.encode('utf-8')).hexdigest(): distinct texts of the
\* model have distinct digests.
sha256(t) == <<"sha256", t>>

Hashes == { sha256(t) : t \in CapTexts }

\* _normalize_source on token texts: they hold neither a backslash marker nor a
\* CR, so the text comes back as it went in (the character-level function is
\* _normalize_source below).
_normalize_source_tok(t) == t

\* ------------------------------------------------------------ characters
\* Texts that reach the file are sequences of characters. Besides the plain
\* characters "/", "n" and "u" there are the line feed, the carriage return and
\* the backslash, and "I", which stands for the marker text "indicator(".
LF == "LF"
CR == "CR"
TAB == "TAB"
BSL == "BSL"

Chars == {"/", "I", "n", "u", BSL, LF, CR}

\* Longest raw capture of the character-level model.
MaxRawLen == 4

RawTexts == UNION { [1..n -> Chars] : n \in 1..MaxRawLen }

\* 'ab' in s, for a two-character pattern
HasPair(s, a, b) == \E i \in 1..(Len(s) - 1) : s[i] = a /\ s[i + 1] = b

\* _normalize_source: '\\n' in source or '\\t' in source or '\\u' in source
HasEscapeMarker(s) ==
    HasPair(s, BSL, "n") \/ HasPair(s, BSL, "t") \/ HasPair(s, BSL, "u")

\* codecs.decode(source, 'unicode_escape') raises: a backslash at the end of the
\* text, or \u without four hex digits (no character of Chars is a hex digit).
RECURSIVE UnicodeEscapeFails(_)
UnicodeEscapeFails(s) ==
    IF s = Empty THEN FALSE
    ELSE IF Head(s) # BSL THEN UnicodeEscapeFails(Tail(s))
    ELSE IF Len(s) = 1 THEN TRUE
    ELSE IF s[2] = "u" THEN TRUE
    ELSE UnicodeEscapeFails(Tail(Tail(s)))

\* What one escape \c decodes to: the known escapes, the dropped backslash-newline,
\* and an unknown escape left as it is.
DecodeEscape(c) ==
    CASE c = "n" -> <<LF>>
      [] c = "t" -> <<TAB>>
      [] c = "r" -> <<CR>>
      [] c = BSL -> <<BSL>>
      [] c = LF  -> Empty
      [] OTHER   -> <<BSL, c>>

\* codecs.decode(source, 'unicode_escape') where it does not raise
RECURSIVE UnicodeEscapeDecode(_)
UnicodeEscapeDecode(s) ==
    IF s = Empty THEN Empty
    ELSE IF Head(s) # BSL THEN <<Head(s)>> \o UnicodeEscapeDecode(Tail(s))
    ELSE IF Len(s) = 1 THEN s
    ELSE DecodeEscape(s[2]) \o UnicodeEscapeDecode(Tail(Tail(s)))

\* str.replace of the two-character pattern a b (a # b) by the text r. The
\* occurrences of such a pattern cannot overlap, so the text is cut in two at a
\* place that splits no occurrence and each part is replaced on its own.
RECURSIVE ReplacePair(_, _, _, _)
ReplacePair(s, a, b, r) ==
    IF Len(s) < 2 THEN s
    ELSE IF Len(s) = 2 THEN (IF s[1] = a /\ s[2] = b THEN r ELSE s)
    ELSE LET half == Len(s) \div 2
             cut == IF s[half] = a /\ s[half + 1] = b THEN half + 1 ELSE half
         IN  ReplacePair(SubSeq(s, 1, cut), a, b, r)
               \o ReplacePair(SubSeq(s, cut + 1, Len(s)), a, b, r)

\* str.replace of the character a by the character b
RECURSIVE ReplaceChar(_, _, _)
ReplaceChar(s, a, b) ==
    IF s = Empty THEN Empty
    ELSE IF Len(s) = 1 THEN (IF s[1] = a THEN <<b>> ELSE s)
    ELSE ReplaceChar(SubSeq(s, 1, Len(s) \div 2), a, b)
           \o ReplaceChar(SubSeq(s, Len(s) \div 2 + 1, Len(s)), a, b)

\* _normalize_source, the except branch: the chain of str.replace calls
\* (replace('\"', '"') replaces a quote by itself)
FallbackUnescape(s) ==
    ReplacePair(
        ReplacePair(
            ReplacePair(ReplacePair(s, BSL, "n", <<LF>>), BSL, "r", <<CR>>),
            BSL, "t", <<TAB>>),
        BSL, "/", <<"/">>)

\* (UnifyLineEndings_cr_first: the two replace calls in the other order)
UnifyLineEndings_cr_first(s) == ReplacePair(ReplaceChar(s, CR, LF), CR, LF, <<LF>>)

\* source.replace('\r\n', '\n').replace('\r', '\n')
UnifyLineEndings(s) == ReplaceChar(ReplacePair(s, CR, LF, <<LF>>), CR, LF)

\* EnhancedTVScraper._normalize_source
_normalize_source(source) ==
    IF source = Empty THEN Empty
    ELSE UnifyLineEndings(
           IF HasEscapeMarker(source)
           THEN IF UnicodeEscapeFails(source) THEN FallbackUnescape(source)
                ELSE UnicodeEscapeDecode(source)
           ELSE source)

\* '\n'.join(lines)
RECURSIVE JoinLines(_)
JoinLines(lines) ==
    IF lines = Empty THEN Empty
    ELSE IF Len(lines) = 1 THEN lines[1]
    ELSE lines[1] \o <<LF>> \o JoinLines(Tail(lines))

\* save_script: one f"// Key: {value}" line of the header; "Key:" is one token
KeyLine(key, value) == <<"/", "/", " ", key, " ">> \o value

\* The text '//@version=', one token.
VersionMarker == "//@version="

\* str.lower(): "LIBRARY(" is the one token of the model with capitals
lower(s) == [i \in 1..Len(s) |-> IF s[i] = "LIBRARY(" THEN "library(" ELSE s[i]]

\* save_script: type_label, from the flags and the marker texts of the combined
\* source in lower case; "library(", "@library" and "strategy(" are one token
\* each.
type_label(r) ==
    LET combined_source == r.source_code \o <<LF>> \o r.source_raw
        src_lower == lower(combined_source)
        has(tok) == \E i \in 1..Len(src_lower) : src_lower[i] = tok
    IN  IF r.is_library \/ has("library(") \/ has("@library") THEN <<"Library">>
        ELSE IF r.is_strategy \/ has("strategy(") THEN <<"Strategy">>
        ELSE <<"Indicator">>

\* save_script: header, the list of lines that is joined with '\n'
header(r) ==
    << KeyLine("Title:", r.title),
       KeyLine("Script ID:", r.script_id),
       KeyLine("Author:", r.author),
       KeyLine("URL:", r.url),
       KeyLine("Published:", r.published_date),
       KeyLine("Downloaded:", <<"now">>),
       KeyLine("Pine Version:", r.version),
       KeyLine("Type:", type_label(r)),
       KeyLine("Boosts:", r.boosts),
       KeyLine("Tags:", r.tags_str),
       <<"/", "/">>,
       Empty >>

\* save_script, clipboard path: f.write('\n'.join(header)); f.write(raw) with
\* raw = self._normalize_source(raw), newline='\n', encoding utf-8
save_script_clipboard(r) == JoinLines(header(r)) \o _normalize_source(r.source_raw)

\* str.strip('\n')
RECURSIVE StripLF(_)
StripLF(s) ==
    IF s = Empty THEN s
    ELSE IF Head(s) = LF THEN StripLF(Tail(s))
    ELSE IF s[Len(s)] = LF THEN StripLF(SubSeq(s, 1, Len(s) - 1))
    ELSE s

\* save_script: the clipboard path, or else header, the decoded and stripped
\* source_code and a final newline
save_script(r) ==
    IF r.source_origin = "clipboard" /\ r.source_raw # Empty
    THEN save_script_clipboard(r)
    ELSE LET source == IF HasEscapeMarker(r.source_code)
                       THEN IF UnicodeEscapeFails(r.source_code)
                            THEN FallbackUnescape(r.source_code)
                            ELSE UnicodeEscapeDecode(r.source_code)
                       ELSE r.source_code
         IN  JoinLines(header(r)) \o StripLF(source) \o <<LF>>

\* Path.read_text: universal newlines turn \r\n and \r into \n
ReadText(bytes) == UnifyLineEndings(bytes)

\* str.splitlines() of a text whose only line boundary is \n
RECURSIVE SplitLines(_)
SplitLines(txt) ==
    IF txt = Empty THEN Empty
    ELSE LET brk == { i \in 1..Len(txt) : txt[i] = LF } IN
         IF brk = {} THEN <<txt>>
         ELSE LET k == CHOOSE i \in brk : \A j \in brk : i <= j IN
              <<SubSeq(txt, 1, k - 1)>> \o SplitLines(SubSeq(txt, k + 1, Len(txt)))

IsWs(c) == c \in {" ", LF, CR, TAB}

RECURSIVE LStripWs(_)
LStripWs(s) == IF s # Empty /\ IsWs(Head(s)) THEN LStripWs(Tail(s)) ELSE s

RECURSIVE RStripWs(_)
RStripWs(s) ==
    IF s # Empty /\ IsWs(s[Len(s)]) THEN RStripWs(SubSeq(s, 1, Len(s) - 1)) ELSE s

\* main: not ln.strip().startswith('//') and ln.strip() != ''
EndsHeader(ln) ==
    LET t == RStripWs(LStripWs(ln)) IN
    ~(Len(t) >= 2 /\ t[1] = "/" /\ t[2] = "/") /\ t # Empty

\* main: for i, ln in enumerate(lines[:40])
HeaderScanLimit == 40

\* main: header_end after the scan of lines[:40]
HeaderEnd(lines) ==
    LET n == IF Len(lines) < HeaderScanLimit THEN Len(lines) ELSE HeaderScanLimit
        stop == { i \in 1..n : EndsHeader(lines[i]) }
    IN  IF stop = {} THEN n
        ELSE (CHOOSE i \in stop : \A j \in stop : i <= j) - 1

\* bytes.lstrip(b'\n')
RECURSIVE LStripLF(_)
LStripLF(s) == IF s # Empty /\ Head(s) = LF THEN LStripLF(Tail(s)) ELSE s

\* main, after save_script: the file is re-read and compared with the raw bytes;
\* on a difference the leading comment lines are kept and the raw bytes follow.
VerifyRewrite(written, raw) ==
    IF written # raw
    THEN LET lines == SplitLines(ReadText(written))
             header_end == HeaderEnd(lines)
             header_text == IF header_end > 0
                            THEN JoinLines(SubSeq(lines, 1, header_end)) \o <<LF>>
                            ELSE Empty
         IN  header_text \o LStripLF(raw)
    ELSE written

\* main: the marker test on source_raw before the clipboard save
\* ("I" is the token 'indicator(')
HasPineMarker(raw) ==
    \E i \in 1..Len(raw) : raw[i] \in {"I", VersionMarker, "library("}

\* Pieces of source text that bear on the version tag and on the script kind.
KindFragments ==
    { <<"I">>, <<VersionMarker>>, <<"5">>, <<"library(">>, <<"LIBRARY(">>,
      <<"strategy(">>, <<"@library">>, <<" ", "library", " ">>, <<LF>> }

\* Most fragments in one text.
MaxKindParts == 2

RECURSIVE KindTexts(_)
KindTexts(n) ==
    IF n = 0 THEN {Empty}
    ELSE KindTexts(n - 1) \cup
         { t \o f : t \in KindTexts(n - 1), f \in KindFragments }

\* Raw captures: every capture channel returns only text that holds a marker.
CapturedRaws ==
    { t \in RawTexts \cup KindTexts(MaxKindParts) : HasPineMarker(t) }

\* ------------------------------------------------------------ targets
\* A script URL is the token "https://www.tradingview.com/script/" followed by
\* the id characters and the rest of the path (the listing keeps only hrefs that
\* match /script/[A-Za-z0-9]+).
ScriptPrefix == "https://www.tradingview.com/script/"

ScriptIds == { <<"a">>, <<"b">>, <<"a", "b">> }

UrlRests == { <<"/">>, <<"-", "t", "/">> }

ListingUrls == { <<ScriptPrefix>> \o id \o rest : id \in ScriptIds, rest \in UrlRests }

Titles == { Empty, <<"t">>, <<"t", " ", "t">> }

\* the longest prefix of s without a character of the set stop
RECURSIVE TakeUntil(_, _)
TakeUntil(s, stop) ==
    IF s = Empty \/ Head(s) \in stop THEN Empty
    ELSE <<Head(s)>> \o TakeUntil(Tail(s), stop)

\* extract_script_id: re.search(r'/script/([^-/]+)', url), '' without a match
extract_script_id(url) ==
    LET at == { i \in 1..Len(url) : url[i] = ScriptPrefix } IN
    IF at = {} THEN Empty
    ELSE LET k == CHOOSE i \in at : \A j \in at : i <= j IN
         TakeUntil(SubSeq(url, k + 1, Len(url)), {"-", "/"})

\* sanitize_filename: re.sub(r'[<>:"/\\|?*\[\]]', '', name)
ForbiddenChars == {"<", ">", ":", "\"", "/", BSL, "|", "?", "*", "[", "]"}

RECURSIVE DropForbidden(_)
DropForbidden(name) ==
    IF name = Empty THEN Empty
    ELSE IF Head(name) \in ForbiddenChars THEN DropForbidden(Tail(name))
    ELSE <<Head(name)>> \o DropForbidden(Tail(name))

\* sanitize_filename: re.sub(r'\s+', '_', name)
RECURSIVE WsToUnderscore(_)
WsToUnderscore(name) ==
    IF name = Empty THEN Empty
    ELSE IF IsWs(Head(name)) THEN <<"_">> \o WsToUnderscore(LStripWs(name))
    ELSE <<Head(name)>> \o WsToUnderscore(Tail(name))

\* sanitize_filename: name.strip('._')
RECURSIVE StripDotUnderscore(_)
StripDotUnderscore(name) ==
    IF name # Empty /\ Head(name) \in {".", "_"} THEN StripDotUnderscore(Tail(name))
    ELSE IF name # Empty /\ name[Len(name)] \in {".", "_"}
         THEN StripDotUnderscore(SubSeq(name, 1, Len(name) - 1))
    ELSE name

\* sanitize_filename (names stay far below the 200 characters it cuts at)
sanitize_filename(name) ==
    LET n == StripDotUnderscore(WsToUnderscore(DropForbidden(name))) IN
    IF n = Empty THEN <<"unnamed_script">> ELSE n

\* save_script: filename = f"{script_id}_{safe_title}.pine" with
\* safe_title = sanitize_filename(result.get('title') or 'unknown')
filename(r) ==
    r.script_id \o <<"_">>
      \o sanitize_filename(IF r.title = Empty THEN <<"unknown">> ELSE r.title)
      \o <<".pine">>

\* extract_pine_source: the result dict of an accepted clipboard capture of the
\* text raw on the page url (version is never assigned after the capture)
\* re.search(r'//@version=(\d+)', src): group 1 of the first match, Empty
\* without a match
version_match(src) ==
    LET at == { i \in 1..(Len(src) - 1) :
                  src[i] = VersionMarker /\ src[i + 1] = "5" } IN
    IF at = {} THEN Empty
    ELSE LET k == CHOOSE i \in at : \A j \in at : i <= j
             rest == SubSeq(src, k + 1, Len(src))
         IN  TakeUntil(rest, { rest[i] : i \in 1..Len(rest) } \ {"5"})

\* 'library(' in low or ' library ' in low
library_in(low) ==
    \/ \E i \in 1..Len(low) : low[i] = "library("
    \/ \E i \in 1..(Len(low) - 2) :
          low[i] = " " /\ low[i + 1] = "library" /\ low[i + 2] = " "

\* dump_copy_diagnostics: the result dict built from the page-visible text
PageVisibleResult(url, page_vis) ==
    [ url |-> url, script_id |-> extract_script_id(url),
      title |-> extract_script_id(url),
      author |-> Empty, published_date |-> <<"date">>,
      version |-> version_match(page_vis), boosts |-> <<"0">>,
      tags_str |-> Empty, source_origin |-> "page_visible",
      source_raw |-> Empty, source_code |-> page_vis,
      is_library |-> library_in(lower(page_vis)),
      is_strategy |-> \E i \in 1..Len(page_vis) : lower(page_vis)[i] = "strategy(" ]

\* extract_pine_source: the result of an accepted capture; version_match is
\* computed from the source and stored nowhere, 'version' keeps its ''.
CapturedResult(url, title, raw) ==
    LET code == RStripWs(LStripWs(_normalize_source(raw)))
        raw_to_check == IF code # Empty THEN code ELSE raw
        src_low == lower(raw_to_check)
        has(tok) == \E i \in 1..Len(src_low) : src_low[i] = tok
    IN  [ url |-> url, script_id |-> extract_script_id(url), title |-> title,
          author |-> <<"author">>, published_date |-> <<"date">>,
          version |-> Empty, boosts |-> <<"0">>, tags_str |-> Empty,
          source_origin |-> "clipboard", source_raw |-> raw, source_code |-> code,
          is_library |-> library_in(src_low), is_strategy |-> has("strategy(") ]

\* ------------------------------------------------------------ resume scan
IsAlnum(c) == c \in {"a", "b", "t"}

\* re.match(r'([A-Za-z0-9]+)_', fname): group 1, Empty without a match
FilenameId(fname) ==
    LET run == TakeUntil(fname, { c \in {fname[i] : i \in 1..Len(fname)} : ~IsAlnum(c) })
    IN  IF run # Empty /\ Len(fname) > Len(run) /\ fname[Len(run) + 1] = "_"
        THEN run ELSE Empty

\* re.match(r'\s*//\s*<key>\s*(\S+)', line): group 1, Empty without a match
HeaderValue(line, key) ==
    LET a == LStripWs(line) IN
    IF Len(a) >= 2 /\ a[1] = "/" /\ a[2] = "/"
    THEN LET b == LStripWs(SubSeq(a, 3, Len(a))) IN
         IF b # Empty /\ Head(b) = key
         THEN TakeUntil(LStripWs(Tail(b)), {" ", LF, CR, TAB})
         ELSE Empty
    ELSE Empty

\* sid.split('-')[0]
BeforeDash(sid) == TakeUntil(sid, {"-"})

\* _scan_existing_scripts: the readline loop over at most 40 lines; the first
\* line that matches either pattern ends the loop.
ScanLineLimit == 40

RECURSIVE ScanHeader(_, _)
ScanHeader(lines, n) ==
    IF lines = Empty \/ n = 0 THEN {}
    ELSE IF HeaderValue(Head(lines), "URL:") # Empty
         THEN { HeaderValue(Head(lines), "URL:") }
    ELSE IF HeaderValue(Head(lines), "Script ID:") # Empty
         THEN LET sid == HeaderValue(Head(lines), "Script ID:") IN { sid, BeforeDash(sid) }
    ELSE ScanHeader(Tail(lines), n - 1)

\* _scan_existing_scripts, one *.meta.json sidecar: data['url'], data['script_id']
ScanSidecar(f) ==
    (IF f.data.url # Empty THEN { f.data.url } ELSE {})
      \cup (IF f.data.script_id # Empty
            THEN { f.data.script_id, BeforeDash(f.data.script_id) } ELSE {})

\* _scan_existing_scripts, one *.pine file: the filename prefix and the header
ScanPine(f) ==
    (IF FilenameId(f.name) # Empty THEN { FilenameId(f.name) } ELSE {})
      \cup ScanHeader(SplitLines(ReadText(f.text)), ScanLineLimit)

\* _scan_existing_scripts over the files of the output directory
_scan_existing_scripts(files) ==
    UNION { IF f.kind = "meta" THEN ScanSidecar(f) ELSE ScanPine(f) : f \in files }

\* save_script: the file it leaves in the output directory
SavedFile(r) == [ kind |-> "pine", name |-> filename(r), text |-> save_script_clipboard(r) ]

\* download_all: worklist = [s for s in scripts if s['url'] not in completed]
RECURSIVE Worklist(_, _)
Worklist(scripts, completed) ==
    IF scripts = Empty THEN Empty
    ELSE IF Head(scripts).url \in completed THEN Worklist(Tail(scripts), completed)
    ELSE <<Head(scripts)>> \o Worklist(Tail(scripts), completed)

\* ------------------------------------------------------------ state
VARIABLES
    mode,             \* "batch": main runs download_all; "single": the single-URL flow
    positional_click, \* self.positional_click
    pc,               \* position of the one task that drives the page
    idx,              \* download_all: i, the Target being handled (its URL)
    attempt,          \* download_all: attempt of the per-Target loop
    succeeded,        \* download_all: succeeded
    x_attempt,        \* extract_pine_source: attempt of the capture loop
    source_code,      \* extract_pine_source: local source_code
    page_visible,     \* extract_pine_source: local page_visible
    result,           \* extract_pine_source: result / download_all: res
    seen,             \* self._seen_clipboard_hashes: digest -> first owner URL
    clipboard,        \* the OS clipboard
    stats,            \* self.stats
    saves,            \* per URL: what save_script was called with (history)
    rawValid,         \* history: result.source_raw was captured on an accepted attempt
    codeValid,        \* history: the text of source_code passed both checks
    allEmpty,         \* history: every capture of this extract call came back ''
    xCaps,            \* history: capture attempts of this extract call
    capCount,         \* history: capture attempts spent on the current Target
    navCount,         \* history: page.goto calls for the current Target
    navFailed,        \* history: the first navigation to the current Target failed
    softCount,        \* history: _restart_context calls for the current Target
    hardCount,        \* history: cleanup+setup restarts for the current Target
    page_text,        \* document.body.innerText of the page just navigated to
    sv_pc,            \* saving a capture: position ("off" outside SpecSave)
    sv_flow,          \* saving a capture: "batch" (download_all) or "single" (main)
    sv_res,           \* saving a capture: res, the result dict that is saved
    sv_file,          \* saving a capture: the bytes of the .pine file
    rs_pc,            \* resuming: position ("off" outside SpecResume)
    rs_resume,        \* download_all: resume
    rs_scripts,       \* download_all: scripts, the listing
    rs_files,         \* the files of the output directory
    rs_worklist,      \* download_all: worklist, the part still to be handled
    rs_saved,         \* history: URLs the earlier run saved
    rs_nav,           \* history: URLs this run navigated to
    session,          \* self.browser, self.playwright, self.page and the engines
    results,          \* len(self.results)
    exc,              \* the exception in flight in download_all ("none": none)
    cleanup_log,      \* history: what the last cleanup() attempted and raised
    setup_failed,     \* history: some setup() of this run raised
    q,                \* check_removed_fast.run: q, the URLs still queued
    ck_results,       \* check_removed_fast.run: results, the URL of each record
    unfinished_tasks, \* q's count of items put and not yet task_done
    tasks,            \* run: tasks, per worker its position and its item
    progress,         \* run: progress['done'], the URLs with a result
    SHOULD_STOP,      \* check_removed_fast.SHOULD_STOP
    run_pc,           \* run: "off", "join" (await q.join()) or "returned"
    progress_file,    \* the URLs in the progress file; {"unwritten"} before
    dt_pc,            \* date normalizers: "off", "text" or "parsed"
    dt_now,           \* datetime.utcnow() / datetime.now(timezone.utc)
    dt_text,          \* the publish text handed to a normalizer
    dt_out,           \* what the normalizer returned, or what it raised
    channels,         \* one capture attempt: what each channel's read yields
    tried,            \* history: the channels read in this capture attempt
    nm_pc,            \* _normalize_source: "off", "raw", "once" or "twice"
    nm_in,            \* the text handed to _normalize_source
    nm_out,           \* what the last call of _normalize_source returned
    ov_pc,            \* handle_overlays: "off", "close", "overlay", "google", "done"
    ov_dom,           \* the elements of the page, in document order
    ov_hidden,        \* the elements handle_overlays has hidden
    ls_pc,            \* get_scripts_from_listing, the generated pages: "off",
                      \* "visit", "stopped" (break), "raised" or "exhausted"
    ls_p,             \* the page number p of the next generated page
    ls_scripts,       \* scripts, the URLs collected so far
    ls_no_new,        \* no_new_pages
    ls_hist,          \* history: per generated page visited, whether it yielded a new URL
    dj_pc,            \* download_from_json.main: "off", "loop" or "summary"
    dj_i,             \* the index i of the entry handled next
    dj_cfg,           \* force, check_updates, and whether the scraper helper was built
    dj_urls,          \* per listed URL: the local file and the Published instants
    dj_counts,        \* succeeded, skipped, failed
    dj_log,           \* history: per URL handled, what was done with it
    sp_run,           \* scrape_pubdates.run: "off", "gather", "written" or "aborted"
    sp_retries,       \* args.retries
    sp_sem,           \* free slots of the semaphore of run
    sp_tasks          \* per URL: the position of its run_one task, its attempt count, its page

orch_vars == << mode, positional_click, pc, idx, attempt, succeeded, x_attempt,
                source_code, page_visible, result, seen, clipboard, stats, saves,
                rawValid, codeValid, allEmpty, xCaps, capCount, navCount,
                navFailed, softCount, hardCount, page_text >>

save_vars == << sv_pc, sv_flow, sv_res, sv_file >>

resume_vars == << rs_pc, rs_resume, rs_scripts, rs_files, rs_worklist, rs_saved, rs_nav >>

session_vars == << session, results, exc, cleanup_log, setup_failed >>

checker_vars == << q, ck_results, unfinished_tasks, tasks, progress, SHOULD_STOP,
                   run_pc, progress_file >>

date_vars == << dt_pc, dt_now, dt_text, dt_out >>

capture_vars == << channels, tried >>

norm_vars == << nm_pc, nm_in, nm_out >>

overlay_vars == << ov_pc, ov_dom, ov_hidden >>

listing_vars == << ls_pc, ls_p, ls_scripts, ls_no_new, ls_hist >>

json_vars == << dj_pc, dj_i, dj_cfg, dj_urls, dj_counts, dj_log >>

pub_vars == << sp_run, sp_retries, sp_sem, sp_tasks >>

aux_vars == << norm_vars, overlay_vars, listing_vars, json_vars, pub_vars >>

core_vars == << orch_vars, save_vars, resume_vars, session_vars, checker_vars,
                date_vars, capture_vars >>

vars == << orch_vars, save_vars, resume_vars, session_vars, checker_vars,
           date_vars, capture_vars, aux_vars >>

Urls == 1..NumTargets
NoOwner == 0
NotSaved == [path |-> "none", text |-> Empty, valid |-> FALSE]

\* What a capture channel call can return: a plausible text or ''.
CapOutcomes == CapTexts \cup {Empty}

NavOutcomes == {"ok", "http_error", "no_response", "timeout"}

\* extract_pine_source: the result dict as created on entry
FreshResult ==
    [error |-> "", source_origin |-> "", source_raw |-> Empty, source_code |-> Empty]

\* The caller extract_pine_source returns to.
ReturnPc == IF mode = "batch" THEN "da_handle" ELSE "m_handle"

\* The copy a click triggers lands on the OS clipboard.
Copied(t) == IF t # Empty THEN t ELSE clipboard

\* extract_pine_source: error text of the early exit after page.goto
NavError(o) ==
    CASE o = "http_error"  -> "HTTP 404"
      [] o = "no_response" -> "HTTP No response"
      [] o = "timeout"     -> "Timeout"
      [] OTHER             -> ""

\* The page text is a sequence of words (joined by single spaces).
PageWords == {"Open-source", "script", "Invite-only", "Protected"}

\* Longest page text.
MaxPageWords == 3

PageTexts == UNION { [1..n -> PageWords] : n \in 0..MaxPageWords }

\* String.toUpperCase / toLowerCase, word by word
toUpperCase(text) ==
    [i \in 1..Len(text) |->
        CASE text[i] = "Open-source" -> "OPEN-SOURCE"
          [] text[i] = "script"      -> "SCRIPT"
          [] text[i] = "Invite-only" -> "INVITE-ONLY"
          [] text[i] = "Protected"   -> "PROTECTED"
          [] OTHER                   -> text[i]]

toLowerCase(text) ==
    [i \in 1..Len(text) |->
        CASE text[i] = "Open-source" -> "open-source"
          [] text[i] = "Invite-only" -> "invite-only"
          [] text[i] = "Protected"   -> "protected"
          [] OTHER                   -> text[i]]

\* text.includes(phrase) for a phrase of one or two words
IncludesWord(text, w) == \E i \in 1..Len(text) : text[i] = w

IncludesPair(text, w1, w2) ==
    \E i \in 1..(Len(text) - 1) : text[i] = w1 /\ text[i + 1] = w2

\* extract_pine_source, in the page: the three markers of the page text
isOpenSource(pageText) ==
    \/ IncludesPair(toUpperCase(pageText), "OPEN-SOURCE", "SCRIPT")
    \/ IncludesWord(toUpperCase(pageText), "OPEN-SOURCE")
    \/ IncludesPair(pageText, "Open-source", "script")

isInviteOnly(pageText) == IncludesWord(toLowerCase(pageText), "invite-only")

isProtected(pageText) ==
    IncludesPair(toLowerCase(pageText), "protected", "script")

\* extract_pine_source: script_type evaluated in the page, then the error chosen
script_type(open, invite, prot) ==
    [isOpenSource |-> open /\ ~invite /\ ~prot, isInviteOnly |-> invite,
     isProtected |-> prot]

\* (ClassifyError_protected_first: the two protection tests in the other order)
ClassifyError_protected_first(st) ==
    IF st.isOpenSource THEN ""
    ELSE IF st.isProtected THEN "protected"
    ELSE IF st.isInviteOnly THEN "invite-only"
    ELSE "not open-source"

ClassifyError(st) ==
    IF st.isOpenSource THEN ""
    ELSE IF st.isInviteOnly THEN "invite-only"
    ELSE IF st.isProtected THEN "protected"
    ELSE "not open-source"

\* extract_pine_source, after the capture loop: fail on '', else normalize and strip
AfterLoop(r, sc) ==
    IF sc = Empty THEN [r EXCEPT !.error = "clipboard_extraction_failed"]
    ELSE [r EXCEPT !.source_code = Strip(_normalize_source_tok(sc))]

\* The values of a scraper object after __init__, at position p of flow m.
InitScraper(m, p) ==
    /\ mode = m
    /\ pc = p
    /\ idx = 1
    /\ attempt = 1
    /\ succeeded = FALSE
    /\ x_attempt = 1
    /\ source_code = Empty
    /\ page_visible = Empty
    /\ result = FreshResult
    /\ seen = [h \in Hashes |-> NoOwner]
    /\ clipboard = Empty
    /\ stats = [downloaded |-> 0, skipped_protected |-> 0, skipped_no_code |-> 0,
                failed |-> 0]
    /\ saves = [u \in Urls |-> NotSaved]
    /\ rawValid = FALSE
    /\ codeValid = FALSE
    /\ allEmpty = TRUE
    /\ xCaps = 0
    /\ capCount = 0
    /\ navCount = 0
    /\ navFailed = FALSE
    /\ softCount = 0
    /\ hardCount = 0
    /\ page_text = Empty

\* No capture is being saved.
SaveOff ==
    /\ sv_pc = "off" /\ sv_flow = "batch"
    /\ sv_res = [CapturedResult(Empty, Empty, Empty) EXCEPT !.source_origin = ""]
    /\ sv_file = Empty

\* _normalize_source is not being exercised.
NormOff == nm_pc = "off" /\ nm_in = Empty /\ nm_out = Empty

\* handle_overlays is not being exercised.
OverlayOff == ov_pc = "off" /\ ov_dom = Empty /\ ov_hidden = {}

\* The generated listing pages are not being visited.
ListingOff ==
    /\ ls_pc = "off" /\ ls_p = 2 /\ ls_scripts = {} /\ ls_no_new = 0
    /\ ls_hist = Empty

\* download_from_json is not running.
JsonOff ==
    /\ dj_pc = "off" /\ dj_i = 1 /\ dj_urls = Empty /\ dj_log = Empty
    /\ dj_cfg = [force |-> FALSE, check_updates |-> FALSE, scraper |-> FALSE]
    /\ dj_counts = [succeeded |-> 0, skipped |-> 0, failed |-> 0]

\* scrape_pubdates is not running.
PubOff ==
    /\ sp_run = "off" /\ sp_retries = 0 /\ sp_sem = 0 /\ sp_tasks = Empty

\* None of the helper flows is under way.
AuxOff == PubOff /\ JsonOff /\ ListingOff /\ NormOff /\ OverlayOff

\* No resumed run is under way.
ResumeOff ==
    /\ rs_pc = "off" /\ rs_resume = FALSE /\ rs_scripts = Empty /\ rs_files = {}
    /\ rs_worklist = Empty /\ rs_saved = {} /\ rs_nav = {}

\* The session fields after __init__: no browser, no page, and no attribute
\* self.playwright yet.
SessionInit ==
    /\ session = [browser |-> "none", playwright |-> "unset", orphans |-> 0,
                  relaunched |-> FALSE,
                  page |-> "none", old_page |-> "none",
                  script_context_created |-> FALSE,
                  hooks |-> FALSE, old_hooks |-> FALSE,
                  capture_unhooked |-> FALSE,
                  ctx |-> "none", target_contexts |-> 0,
                  restored_page |-> "none"]
    /\ results = 0
    /\ exc = "none"
    /\ cleanup_log = [called |-> FALSE, had_browser |-> FALSE,
                      had_playwright |-> FALSE, close |-> FALSE,
                      close_failed |-> FALSE, stop |-> FALSE, raised |-> "none"]
    /\ setup_failed = FALSE

\* Items handed to check_removed_fast.run, and the distinct URLs they can
\* carry: two items may carry the same URL.
NumUrls == 3

\* args.concurrency, the number of worker tasks.
Concurrency == 2

\* The checker is not running.
CheckerOff ==
    /\ q = Empty /\ ck_results = Empty /\ unfinished_tasks = 0
    /\ tasks = [w \in 1..Concurrency |-> [pc |-> "off", item |-> 0]]
    /\ progress = {} /\ SHOULD_STOP = FALSE /\ run_pc = "off"
    /\ progress_file = {"unwritten"}

\* The channel reads of a capture attempt are not followed.
CaptureOff ==
    /\ channels = [attribute |-> Empty, buffer |-> Empty, clipboard |-> Empty,
                   positional |-> Empty]
    /\ tried = Empty

\* No date text is being normalized.
DatesOff ==
    /\ dt_pc = "off" /\ dt_text = Empty
    /\ dt_now = [year |-> 1, month |-> 1, day |-> 1, sec |-> 0]
    /\ dt_out = [fn |-> "", raised |-> "none",
                 dt |-> [set |-> FALSE, day |-> 0, sec |-> 0],
                 text |-> [set |-> FALSE, s |-> Empty]]

Init ==
    /\ positional_click \in BOOLEAN
    /\ \E m \in {"batch", "single"} : InitScraper(m, "start")
    /\ SaveOff
    /\ ResumeOff
    /\ SessionInit
    /\ CheckerOff
    /\ DatesOff
    /\ CaptureOff
    /\ AuxOff

\* ------------------------------------------------- download_all, entry
\* setup(), the listing and the worklist; the worklist is Urls in listing order.
DA_Setup ==
    /\ pc = "start" /\ mode = "batch"
    /\ pc' = "target"
    /\ UNCHANGED << mode, positional_click, idx, attempt, succeeded, x_attempt,
                    source_code, page_visible, result, seen, clipboard, stats,
                    saves, rawValid, codeValid, allEmpty, xCaps, capCount,
                    navCount, navFailed, softCount, hardCount >>
    /\ UNCHANGED << page_text, save_vars, resume_vars, session_vars,
                    checker_vars, date_vars, capture_vars, aux_vars >>

\* The isolated context and page of Target idx; the attempt loop starts.
DA_NextTarget ==
    /\ pc = "target"
    /\ pc' = "extract"
    /\ attempt' = 1
    /\ succeeded' = FALSE
    /\ capCount' = 0 /\ navCount' = 0 /\ navFailed' = FALSE
    /\ softCount' = 0 /\ hardCount' = 0
    /\ UNCHANGED << mode, positional_click, idx, x_attempt, source_code,
                    page_visible, result, seen, clipboard, stats, saves,
                    rawValid, codeValid, allEmpty, xCaps >>
    /\ UNCHANGED << page_text, save_vars, resume_vars, session_vars,
                    checker_vars, date_vars, capture_vars, aux_vars >>

\* ------------------------------------------------- extract_pine_source
\* Entry: the result dict, the copy hooks (positional mode) and page.goto; a
\* failed navigation returns the error at once (X_Navigate_unchecked: the error
\* is noted but the function goes on to the page).
X_Navigate_unchecked ==
    /\ pc = "extract"
    /\ \E o \in NavOutcomes :
         /\ navCount' = navCount + 1
         /\ navFailed' = IF navCount = 0 THEN o # "ok" ELSE navFailed
         /\ IF o = "ok"
            THEN /\ result' = FreshResult
                 /\ page_text' \in PageTexts
                 /\ pc' = "x_classify"
            ELSE /\ result' = [FreshResult EXCEPT !.error = NavError(o)]
                 /\ page_text' \in PageTexts
                 /\ pc' = "x_classify"
    /\ rawValid' = FALSE /\ codeValid' = FALSE
    /\ allEmpty' = TRUE /\ xCaps' = 0
    /\ source_code' = Empty /\ page_visible' = Empty
    /\ UNCHANGED << mode, positional_click, idx, attempt, succeeded, x_attempt,
                    seen, clipboard, stats, saves, capCount, softCount,
                    hardCount >>
    /\ UNCHANGED << save_vars, resume_vars, session_vars,
                    checker_vars, date_vars, capture_vars, aux_vars >>

X_Navigate ==
    /\ pc = "extract"
    /\ \E o \in NavOutcomes :
         /\ navCount' = navCount + 1
         /\ navFailed' = IF navCount = 0 THEN o # "ok" ELSE navFailed
         /\ IF o = "ok"
            THEN /\ result' = FreshResult
                 /\ page_text' \in PageTexts
                 /\ pc' = "x_classify"
            ELSE /\ result' = [FreshResult EXCEPT !.error = NavError(o)]
                 /\ page_text' = Empty
                 /\ pc' = ReturnPc
    /\ rawValid' = FALSE /\ codeValid' = FALSE
    /\ allEmpty' = TRUE /\ xCaps' = 0
    /\ source_code' = Empty /\ page_visible' = Empty
    /\ UNCHANGED << mode, positional_click, idx, attempt, succeeded, x_attempt,
                    seen, clipboard, stats, saves, capCount, softCount,
                    hardCount >>
    /\ UNCHANGED << save_vars, resume_vars, session_vars,
                    checker_vars, date_vars, capture_vars, aux_vars >>

\* Metadata, then the open-source / invite-only / protected markers of the page.
X_Classify ==
    /\ pc = "x_classify"
    /\ LET e == ClassifyError(script_type(isOpenSource(page_text),
                                          isInviteOnly(page_text),
                                          isProtected(page_text)))
       IN  IF e # ""
           THEN /\ result' = [result EXCEPT !.error = e]
                /\ pc' = ReturnPc
           ELSE /\ result' = result
                /\ pc' = "x_opentab"
    /\ page_text' = Empty
    /\ UNCHANGED << mode, positional_click, idx, attempt, succeeded, x_attempt,
                    source_code, page_visible, seen, clipboard, stats, saves,
                    rawValid, codeValid, allEmpty, xCaps, capCount, navCount,
                    navFailed, softCount, hardCount >>
    /\ UNCHANGED << save_vars, resume_vars, session_vars,
                    checker_vars, date_vars, capture_vars, aux_vars >>

\* The Source code tab is opened; in positional mode a first positional click
\* follows, and what it returns is dropped when the loop sets source_code = ''.
X_OpenSourceTab ==
    /\ pc = "x_opentab"
    /\ \E t \in CapOutcomes :
         /\ (~positional_click => t = Empty)
         /\ clipboard' = Copied(t)
         /\ allEmpty' = (allEmpty /\ t = Empty)
    /\ x_attempt' = 1
    /\ source_code' = Empty
    /\ pc' = "x_capture"
    /\ UNCHANGED << mode, positional_click, idx, attempt, succeeded,
                    page_visible, result, seen, stats, saves, rawValid,
                    codeValid, xCaps, capCount, navCount, navFailed,
                    softCount, hardCount >>
    /\ UNCHANGED << page_text, save_vars, resume_vars, session_vars,
                    checker_vars, date_vars, capture_vars, aux_vars >>

\* One capture attempt: handle_overlays, the positional click (positional mode),
\* else _try_copy_button_extraction; a non-empty text is stored as source_raw.
X_Capture ==
    /\ pc = "x_capture"
    /\ \E t \in CapOutcomes :
         /\ source_code' = t
         /\ clipboard' = Copied(t)
         /\ allEmpty' = (allEmpty /\ t = Empty)
         /\ IF t # Empty
            THEN /\ result' = [result EXCEPT !.source_origin = "clipboard",
                                             !.source_raw = t]
                 /\ rawValid' = FALSE
                 /\ pc' = "x_visible"
            ELSE /\ result' = result
                 /\ rawValid' = rawValid
                 /\ pc' = "x_recover"
    /\ codeValid' = FALSE
    /\ xCaps' = xCaps + 1
    /\ capCount' = capCount + 1
    /\ UNCHANGED << mode, positional_click, idx, attempt, succeeded, x_attempt,
                    page_visible, seen, stats, saves, navCount, navFailed,
                    softCount, hardCount >>
    /\ UNCHANGED << page_text, save_vars, resume_vars, session_vars,
                    checker_vars, date_vars, capture_vars, aux_vars >>

\* page_visible = _try_source_tab_extraction() ('' when it raises)
X_ReadVisible ==
    /\ pc = "x_visible"
    /\ page_visible' \in VisTexts
    /\ pc' = "x_validate"
    /\ UNCHANGED << mode, positional_click, idx, attempt, succeeded, x_attempt,
                    source_code, result, seen, clipboard, stats, saves,
                    rawValid, codeValid, allEmpty, xCaps, capCount, navCount,
                    navFailed, softCount, hardCount >>
    /\ UNCHANGED << page_text, save_vars, resume_vars, session_vars,
                    checker_vars, date_vars, capture_vars, aux_vars >>

\* The stale branch: mark, clear the clipboard, source_code = '', continue; on
\* the last attempt the loop ends and the function returns the failure
\* (StaleContinue_noclear: the clipboard keeps its text).
StaleContinue_noclear ==
    /\ clipboard' = clipboard
    /\ source_code' = Empty
    /\ codeValid' = FALSE
    /\ rawValid' = rawValid
    /\ seen' = seen
    /\ IF x_attempt < max_retries
       THEN /\ result' = [result EXCEPT !.error = "stale_clipboard"]
            /\ x_attempt' = x_attempt + 1
            /\ pc' = "x_capture"
       ELSE /\ result' = AfterLoop([result EXCEPT !.error = "stale_clipboard"], Empty)
            /\ x_attempt' = x_attempt
            /\ pc' = ReturnPc

StaleContinue ==
    /\ clipboard' = Empty
    /\ source_code' = Empty
    /\ codeValid' = FALSE
    /\ rawValid' = rawValid
    /\ seen' = seen
    /\ IF x_attempt < max_retries
       THEN /\ result' = [result EXCEPT !.error = "stale_clipboard"]
            /\ x_attempt' = x_attempt + 1
            /\ pc' = "x_capture"
       ELSE /\ result' = AfterLoop([result EXCEPT !.error = "stale_clipboard"], Empty)
            /\ x_attempt' = x_attempt
            /\ pc' = ReturnPc

\* (AcceptBreak_forget: the registry keeps only the fingerprint just taken)
AcceptBreak_forget ==
    /\ seen' = [h \in Hashes |-> IF h = sha256(source_code) THEN idx ELSE NoOwner]
    /\ result' = AfterLoop(result, source_code)
    /\ rawValid' = TRUE
    /\ codeValid' = TRUE
    /\ pc' = ReturnPc
    /\ UNCHANGED << clipboard, source_code, x_attempt >>

\* The accepting branch: record the first owner, break, normalize, return.
AcceptBreak ==
    /\ seen' = IF seen[sha256(source_code)] = NoOwner
               THEN [seen EXCEPT ![sha256(source_code)] = idx]
               ELSE seen
    /\ result' = AfterLoop(result, source_code)
    /\ rawValid' = TRUE
    /\ codeValid' = TRUE
    /\ pc' = ReturnPc
    /\ UNCHANGED << clipboard, source_code, x_attempt >>

\* The snippet cross-check and the fingerprint dedup of a non-empty capture.
X_Validate ==
    /\ pc = "x_validate"
    /\ IF ~_snippet_matches(page_visible, source_code)
       THEN StaleContinue
       ELSE LET owner == seen[sha256(source_code)] IN
            IF owner # NoOwner /\ owner # idx
            THEN StaleContinue
            ELSE AcceptBreak
    /\ UNCHANGED << mode, positional_click, idx, attempt, succeeded,
                    page_visible, stats, saves, allEmpty, xCaps, capCount,
                    navCount, navFailed, softCount, hardCount >>
    /\ UNCHANGED << page_text, save_vars, resume_vars, session_vars,
                    checker_vars, date_vars, capture_vars, aux_vars >>

\* The end of a pass that did not break: the 1200 ms wait, then the next
\* attempt, or the end of the loop and the return of what source_code holds.
LoopAdvance(r, sc) ==
    IF x_attempt < max_retries
    THEN /\ x_attempt' = x_attempt + 1
         /\ result' = r
         /\ pc' = "x_capture"
    ELSE /\ x_attempt' = x_attempt
         /\ result' = AfterLoop(r, sc)
         /\ pc' = ReturnPc

\* Empty capture on an attempt other than 2 and 3: no recovery step.
X_RecoverNone ==
    /\ pc = "x_recover" /\ x_attempt \notin {2, 3}
    /\ LoopAdvance(result, source_code)
    /\ UNCHANGED << mode, positional_click, idx, attempt, succeeded,
                    source_code, page_visible, seen, clipboard, stats,
                    saves, rawValid, codeValid, allEmpty, xCaps, capCount,
                    navCount, navFailed, softCount, hardCount >>
    /\ UNCHANGED << page_text, save_vars, resume_vars, session_vars,
                    checker_vars, date_vars, capture_vars, aux_vars >>

\* Empty capture on attempt 2: handle_overlays, the Source tab again and, in
\* positional mode, a positional click whose text goes to source_code.
X_RecoverOverlays ==
    /\ pc = "x_recover" /\ x_attempt = 2
    /\ \E t \in CapOutcomes :
         /\ (~positional_click => t = Empty)
         /\ source_code' = t
         /\ clipboard' = Copied(t)
         /\ allEmpty' = (allEmpty /\ t = Empty)
         /\ LoopAdvance(result, t)
    /\ codeValid' = FALSE
    /\ UNCHANGED << mode, positional_click, idx, attempt, succeeded,
                    page_visible, seen, stats, saves, rawValid, xCaps,
                    capCount, navCount, navFailed, softCount, hardCount >>
    /\ UNCHANGED << page_text, save_vars, resume_vars, session_vars,
                    checker_vars, date_vars, capture_vars, aux_vars >>

\* Empty capture on attempt 3: cleanup, setup, page.goto, the Source tab and, in
\* positional mode, a positional click whose text goes to source_code.
X_RecoverHardRestart ==
    /\ pc = "x_recover" /\ x_attempt = 3
    /\ \E t \in CapOutcomes :
         /\ (~positional_click => t = Empty)
         /\ source_code' = t
         /\ clipboard' = Copied(t)
         /\ allEmpty' = (allEmpty /\ t = Empty)
         /\ LoopAdvance(result, t)
    /\ codeValid' = FALSE
    /\ hardCount' = hardCount + 1
    /\ navCount' = navCount + 1
    /\ UNCHANGED << mode, positional_click, idx, attempt, succeeded,
                    page_visible, seen, stats, saves, rawValid, xCaps, capCount,
                    navFailed, softCount >>
    /\ UNCHANGED << page_text, save_vars, resume_vars, session_vars,
                    checker_vars, date_vars, capture_vars, aux_vars >>

\* ------------------------------------------------- download_all, per result
\* save_script(res, category, force_flat=True): which payload it writes
SavePath(r) ==
    IF r.source_origin = "clipboard" /\ r.source_raw # Empty THEN "raw" ELSE "code"

SaveRecord(r) ==
    IF SavePath(r) = "raw"
    THEN [path |-> "raw", text |-> r.source_raw, valid |-> rawValid]
    ELSE [path |-> "code", text |-> r.source_code, valid |-> codeValid]

\* The end of one pass of the attempt loop: the next attempt, or the finally block.
NextAttempt ==
    IF attempt < max_attempts
    THEN /\ attempt' = attempt + 1 /\ pc' = "extract"
    ELSE /\ attempt' = attempt /\ pc' = "da_finally"

\* res is appended to self.results, then saved, skipped or retried
\* (DA_Handle_shortlist: the skip list without 'not open-source').
DA_Handle_shortlist ==
    /\ pc = "da_handle"
    /\ IF result.source_origin = "clipboard" /\ result.source_raw # Empty
       THEN /\ saves' = [saves EXCEPT ![idx] = SaveRecord(result)]
            /\ stats' = [stats EXCEPT !.downloaded = @ + 1]
            /\ succeeded' = TRUE
            /\ pc' = "da_finally"
            /\ UNCHANGED << attempt, softCount >>
       ELSE IF result.error \in {"invite-only", "protected"}
       THEN /\ stats' = [stats EXCEPT !.skipped_protected = @ + 1]
            /\ succeeded' = TRUE
            /\ pc' = "da_finally"
            /\ UNCHANGED << attempt, softCount, saves >>
       ELSE IF \/ result.error = "clipboard_extraction_failed"
               \/ result.error = "stale_clipboard"
               \/ result.source_code = Empty
       THEN /\ softCount' = IF attempt = 2 THEN softCount + 1 ELSE softCount
            /\ NextAttempt
            /\ UNCHANGED << stats, succeeded, saves >>
       ELSE /\ NextAttempt
            /\ UNCHANGED << stats, succeeded, saves, softCount >>
    /\ UNCHANGED << mode, positional_click, idx, x_attempt, source_code,
                    page_visible, result, seen, clipboard, rawValid, codeValid,
                    allEmpty, xCaps, capCount, navCount, navFailed, hardCount >>
    /\ UNCHANGED << page_text, save_vars, resume_vars, session_vars,
                    checker_vars, date_vars, capture_vars, aux_vars >>

DA_Handle ==
    /\ pc = "da_handle"
    /\ IF result.source_origin = "clipboard" /\ result.source_raw # Empty
       THEN /\ saves' = [saves EXCEPT ![idx] = SaveRecord(result)]
            /\ stats' = [stats EXCEPT !.downloaded = @ + 1]
            /\ succeeded' = TRUE
            /\ pc' = "da_finally"
            /\ UNCHANGED << attempt, softCount >>
       ELSE IF result.error \in {"invite-only", "protected", "not open-source"}
       THEN /\ stats' = [stats EXCEPT !.skipped_protected = @ + 1]
            /\ succeeded' = TRUE
            /\ pc' = "da_finally"
            /\ UNCHANGED << attempt, softCount, saves >>
       ELSE IF \/ result.error = "clipboard_extraction_failed"
               \/ result.error = "stale_clipboard"
               \/ result.source_code = Empty
       THEN /\ softCount' = IF attempt = 2 THEN softCount + 1 ELSE softCount
            /\ NextAttempt
            /\ UNCHANGED << stats, succeeded, saves >>
       ELSE /\ NextAttempt
            /\ UNCHANGED << stats, succeeded, saves, softCount >>
    /\ UNCHANGED << mode, positional_click, idx, x_attempt, source_code,
                    page_visible, result, seen, clipboard, rawValid, codeValid,
                    allEmpty, xCaps, capCount, navCount, navFailed, hardCount >>
    /\ UNCHANGED << page_text, save_vars, resume_vars, session_vars,
                    checker_vars, date_vars, capture_vars, aux_vars >>

\* finally: the isolated context is closed and the listing page restored; a
\* Target that did not succeed is counted failed; the wait between scripts.
DA_Finally ==
    /\ pc = "da_finally"
    /\ stats' = IF succeeded THEN stats ELSE [stats EXCEPT !.failed = @ + 1]
    /\ IF idx < NumTargets
       THEN /\ idx' = idx + 1 /\ pc' = "target"
       ELSE /\ idx' = idx /\ pc' = "summary"
    /\ UNCHANGED << mode, positional_click, attempt, succeeded, x_attempt,
                    source_code, page_visible, result, seen, clipboard, saves,
                    rawValid, codeValid, allEmpty, xCaps, capCount, navCount,
                    navFailed, softCount, hardCount >>
    /\ UNCHANGED << page_text, save_vars, resume_vars, session_vars,
                    checker_vars, date_vars, capture_vars, aux_vars >>

\* _export_metadata, _print_summary, and cleanup in the outer finally.
DA_Summary ==
    /\ pc = "summary"
    /\ pc' = "done"
    /\ UNCHANGED << mode, positional_click, idx, attempt, succeeded, x_attempt,
                    source_code, page_visible, result, seen, clipboard, stats,
                    saves, rawValid, codeValid, allEmpty, xCaps, capCount,
                    navCount, navFailed, softCount, hardCount >>
    /\ UNCHANGED << page_text, save_vars, resume_vars, session_vars,
                    checker_vars, date_vars, capture_vars, aux_vars >>

\* ------------------------------------------------- main, single-URL flow
\* scraper.setup(), then extract_pine_source(args.url)
M_Setup ==
    /\ pc = "start" /\ mode = "single"
    /\ pc' = "extract"
    /\ UNCHANGED << mode, positional_click, idx, attempt, succeeded, x_attempt,
                    source_code, page_visible, result, seen, clipboard, stats,
                    saves, rawValid, codeValid, allEmpty, xCaps, capCount,
                    navCount, navFailed, softCount, hardCount >>
    /\ UNCHANGED << page_text, save_vars, resume_vars, session_vars,
                    checker_vars, date_vars, capture_vars, aux_vars >>

\* The save decision of main on the returned result, then cleanup.
M_Handle ==
    /\ pc = "m_handle"
    /\ IF /\ result.source_origin = "clipboard" /\ result.source_raw # Empty
          /\ IsPlausible(result.source_raw)
       THEN saves' = [saves EXCEPT ![idx] = SaveRecord(result)]
       ELSE IF result.source_code # Empty
       THEN saves' = [saves EXCEPT ![idx] = SaveRecord(result)]
       ELSE saves' = saves
    /\ pc' = "done"
    /\ UNCHANGED << mode, positional_click, idx, attempt, succeeded, x_attempt,
                    source_code, page_visible, result, seen, clipboard, stats,
                    rawValid, codeValid, allEmpty, xCaps, capCount, navCount,
                    navFailed, softCount, hardCount >>
    /\ UNCHANGED << page_text, save_vars, resume_vars, session_vars,
                    checker_vars, date_vars, capture_vars, aux_vars >>

Next ==
    \/ DA_Setup
    \/ DA_NextTarget
    \/ X_Navigate
    \/ X_Classify
    \/ X_OpenSourceTab
    \/ X_Capture
    \/ X_ReadVisible
    \/ X_Validate
    \/ X_RecoverNone
    \/ X_RecoverOverlays
    \/ X_RecoverHardRestart
    \/ DA_Handle
    \/ DA_Finally
    \/ DA_Summary
    \/ M_Setup
    \/ M_Handle

Spec == Init /\ [][Next]_vars

\* ------------------------------------------------- saving a capture
\* One accepted clipboard capture is saved, by download_all or by main.
SampleUrl == <<ScriptPrefix, "a", "-", "t", "/">>

InitSave ==
    /\ positional_click = FALSE
    /\ InitScraper("batch", "off")
    /\ ResumeOff
    /\ SessionInit
    /\ CheckerOff
    /\ DatesOff
    /\ CaptureOff
    /\ AuxOff
    /\ sv_pc = "captured"
    /\ sv_flow \in {"batch", "single", "diagnostics"}
    /\ \E raw \in CapturedRaws :
         sv_res = IF sv_flow = "diagnostics" THEN PageVisibleResult(SampleUrl, raw)
                  ELSE CapturedResult(SampleUrl, <<"t">>, raw)
    /\ sv_file = Empty

\* download_all: source_origin == 'clipboard' and source_raw, so save_script
SV_BatchSave ==
    /\ sv_pc = "captured" /\ sv_flow = "batch"
    /\ sv_res.source_origin = "clipboard" /\ sv_res.source_raw # Empty
    /\ sv_file' = save_script(sv_res)
    /\ sv_pc' = "saved"
    /\ UNCHANGED << sv_flow, sv_res, orch_vars, resume_vars, session_vars,
                    checker_vars, date_vars, capture_vars, aux_vars >>

\* dump_copy_diagnostics, no clipboard capture: the page-visible text is saved
\* through save_script
SV_PageVisibleSave ==
    /\ sv_pc = "captured" /\ sv_flow = "diagnostics"
    /\ sv_file' = save_script(sv_res)
    /\ sv_pc' = "saved"
    /\ UNCHANGED << sv_flow, sv_res, orch_vars, resume_vars, session_vars,
                    checker_vars, date_vars, capture_vars, aux_vars >>

\* main: save_script, then the re-read, the comparison with the raw bytes and
\* the rewrite; without a marker in source_raw the plain save_script call.
SV_SingleSave ==
    /\ sv_pc = "captured" /\ sv_flow = "single"
    /\ IF /\ sv_res.source_origin = "clipboard" /\ sv_res.source_raw # Empty
          /\ HasPineMarker(sv_res.source_raw)
       THEN /\ sv_file' = VerifyRewrite(save_script(sv_res), sv_res.source_raw)
            /\ sv_pc' = "verified"
       ELSE IF sv_res.source_code # Empty
       THEN /\ sv_file' = save_script(sv_res)
            /\ sv_pc' = "saved"
       ELSE /\ sv_file' = sv_file
            /\ sv_pc' = "done"
    /\ UNCHANGED << sv_flow, sv_res, orch_vars, resume_vars, session_vars,
                    checker_vars, date_vars, capture_vars, aux_vars >>

NextSave ==
    \/ SV_BatchSave
    \/ SV_SingleSave
    \/ SV_PageVisibleSave

SpecSave == InitSave /\ [][NextSave]_vars

\* ------------------------------------------------- resuming a batch
\* Targets listed per run.
NumListed == 2

Listings ==
    { l \in [1..NumListed -> [url : ListingUrls]] :
        \A i \in 1..NumListed : \A j \in 1..NumListed : i # j => l[i] # l[j] }

InitResume ==
    /\ positional_click = FALSE
    /\ InitScraper("batch", "off")
    /\ SaveOff
    /\ SessionInit
    /\ CheckerOff
    /\ DatesOff
    /\ CaptureOff
    /\ AuxOff
    /\ rs_pc = "earlier"
    /\ rs_resume \in BOOLEAN
    /\ rs_scripts \in Listings
    /\ rs_files = {}
    /\ rs_worklist = Empty
    /\ rs_saved = {}
    /\ rs_nav = {}

\* The earlier run: download_all saves the accepted capture of one listed Target.
RS_EarlierSave ==
    /\ rs_pc = "earlier"
    /\ \E i \in 1..Len(rs_scripts) : \E title \in Titles : \E raw \in {<<"I">>, <<"/", "/", LF, "I">>} :
         /\ rs_scripts[i].url \notin rs_saved
         /\ rs_files' = rs_files \cup { SavedFile(CapturedResult(rs_scripts[i].url, title, raw)) }
         /\ rs_saved' = rs_saved \cup { rs_scripts[i].url }
    /\ UNCHANGED << rs_pc, rs_resume, rs_scripts, rs_worklist, rs_nav, orch_vars, save_vars,
                    session_vars, checker_vars, date_vars, capture_vars, aux_vars >>

\* This run: setup, the listing, completed and the worklist.
RS_Start ==
    /\ rs_pc = "earlier"
    /\ LET completed == IF rs_resume THEN _scan_existing_scripts(rs_files) ELSE {}
           worklist == Worklist(rs_scripts, completed)
       IN  /\ rs_worklist' = worklist
           /\ rs_pc' = IF worklist = Empty THEN "done" ELSE "work"
    /\ UNCHANGED << rs_resume, rs_scripts, rs_files, rs_saved, rs_nav, orch_vars, save_vars,
                    session_vars, checker_vars, date_vars, capture_vars, aux_vars >>

\* This run: one pass of the loop over the worklist; extract_pine_source
\* navigates to the Target's URL.
RS_Process ==
    /\ rs_pc = "work"
    /\ rs_nav' = rs_nav \cup { Head(rs_worklist).url }
    /\ rs_worklist' = Tail(rs_worklist)
    /\ rs_pc' = IF Tail(rs_worklist) = Empty THEN "done" ELSE "work"
    /\ UNCHANGED << rs_resume, rs_scripts, rs_files, rs_saved, orch_vars, save_vars,
                    session_vars, checker_vars, date_vars, capture_vars, aux_vars >>

NextResume ==
    \/ RS_EarlierSave
    \/ RS_Start
    \/ RS_Process

SpecResume == InitResume /\ [][NextResume]_vars

\* ===================================================== the browser session
\* setup, cleanup and download_all's restarts.  extract_pine_source is taken as
\* one step here: what it returns, and whether it restarted the browser.
\* session.browser is "none" (None), "open" (a launched engine) or "closed";
\* session.orphans counts launched engines that are open and no longer
\* referenced by self.browser; session.relaunched records that a browser was
\* launched after an earlier one; a page is "none", "open" or "closed", and
\* it is open exactly as long as its context is.  session.hooks tells
\* whether a copy-capture init script was added to self.page (old_hooks: to
\* old_page); session.ctx is "target" when self.context is an open context
\* made for the Target being handled (its isolated context or one made by a
\* soft restart), "closed" once that context was closed, and "listing" when
\* setup made self.context; session.target_contexts counts
\* the open contexts made for the Target.  capture_unhooked (a capture
\* attempt ran on a page without such a script) and restored_page (what
\* self.page was right after the last restore of the listing page) are
\* history.

\* Exception classes an "except Exception" clause catches.
ExceptionSubclasses == {"Exception", "TargetClosedError", "AttributeError"}

\* try: ... except Exception: (log or pass)
swallow(e) == IF e \in ExceptionSubclasses THEN "none" ELSE e

\* A page after its browser or context was closed.
ClosedPage(p) == IF p = "open" THEN "closed" ELSE p

\* self.page closes; while the Target is handled on the listing page itself
\* (no isolated context, no soft restart yet), old_page is that same page.
PageGone(s) ==
    [s EXCEPT !.page = ClosedPage(@),
              !.old_page = IF s.ctx = "listing" /\ ~s.script_context_created
                           THEN ClosedPage(@) ELSE @]

\* cleanup, first block: if self.browser: await self.browser.close()
\* fc: the engine had died and close() raises.
CloseBrowser(s, fc) ==
    IF s.browser = "none"
    THEN [s |-> s, attempted |-> FALSE, raised |-> "none"]
    ELSE [s |-> [s EXCEPT !.browser = "closed", !.page = ClosedPage(@),
                          !.old_page = ClosedPage(@),
                          !.ctx = IF @ = "target" THEN "closed" ELSE @,
                          !.target_contexts = 0],
          attempted |-> TRUE,
          raised |-> IF fc THEN "Exception" ELSE "none"]

\* cleanup, second block: if self.playwright: await self.playwright.stop()
\* Before the first setup the attribute does not exist.
StopPlaywright(s, fs) ==
    IF s.playwright = "unset"
    THEN [s |-> s, attempted |-> FALSE, raised |-> "AttributeError"]
    ELSE [s |-> IF fs THEN s ELSE [s EXCEPT !.playwright = "stopped"],
          attempted |-> TRUE,
          raised |-> IF fs THEN "Exception" ELSE "none"]

\* (cleanup_one_try: both calls inside a single try block)
cleanup_one_try(s, fc, fs) ==
    LET c == CloseBrowser(s, fc)
        p == IF c.raised = "none" THEN StopPlaywright(c.s, fs)
             ELSE [s |-> c.s, attempted |-> FALSE, raised |-> c.raised]
    IN [s |-> p.s,
        log |-> [called |-> TRUE, had_browser |-> s.browser # "none",
                 had_playwright |-> s.playwright # "unset",
                 close |-> c.attempted, close_failed |-> c.raised # "none",
                 stop |-> p.attempted, raised |-> swallow(p.raised)]]

\* cleanup: two try blocks, each with its own except Exception
cleanup(s, fc, fs) ==
    LET c == CloseBrowser(s, fc)
        first == swallow(c.raised)
        p == IF first = "none" THEN StopPlaywright(c.s, fs)
             ELSE [s |-> c.s, attempted |-> FALSE, raised |-> first]
    IN [s |-> p.s,
        log |-> [called |-> TRUE, had_browser |-> s.browser # "none",
                 had_playwright |-> s.playwright # "unset",
                 close |-> c.attempted, close_failed |-> c.raised # "none",
                 stop |-> p.attempted, raised |-> swallow(p.raised)]]

\* Where a setup() can raise: not at all, in async_playwright().start(), in
\* chromium.launch, or after the launch while the context and page are made.
SetupOutcomes == {"ok", "start", "launch", "context"}

\* setup; the copy-capture init script is added to the page self.page refers
\* to before the new page exists, so the new page is without it
setup(s, o) ==
    LET started == [s EXCEPT !.playwright = "started"]
        launched == [started EXCEPT !.browser = "open",
                        !.relaunched = @ \/ s.browser # "none",
                        !.orphans = IF s.browser = "open" THEN @ + 1 ELSE @]
    IN CASE o = "start"   -> [s |-> s, raised |-> "Exception"]
         [] o = "launch"  -> [s |-> started, raised |-> "Exception"]
         [] o = "context" -> [s |-> launched, raised |-> "Exception"]
         [] OTHER         -> [s |-> [launched EXCEPT !.page = "open",
                                               !.hooks = FALSE,
                                               !.ctx = "listing"],
                              raised |-> "none"]

\* (restart_without_cleanup: setup on top of the running browser)
restart_without_cleanup(s, fc, fs, o) ==
    setup(s, o) @@ [log |-> cleanup(s, fc, fs).log]

\* try: await self.cleanup() except Exception: pass; then await self.setup()
restart(s, fc, fs, o) ==
    LET c == cleanup(s, fc, fs)
    IN setup(c.s, o) @@ [log |-> c.log]

\* (_restart_context_keep: the context in use is not closed first)
_restart_context_keep(s, f) ==
    IF s.browser = "open" /\ ~f
    THEN [s |-> [s EXCEPT !.page = "open", !.hooks = FALSE, !.ctx = "target",
                          !.target_contexts = @ + 1],
          raised |-> "none"]
    ELSE [s |-> PageGone(s), raised |-> "Exception"]

\* _restart_context: close self.context (the listing context itself when the
\* Target has no isolated one), open a new context and a page in the same
\* browser; f: new_context raises.
_restart_context(s, f) ==
    LET closed == [s EXCEPT !.page = ClosedPage(@),
                            !.old_page = IF s.ctx = "listing"
                                         THEN ClosedPage(@) ELSE @,
                            !.ctx = IF @ = "target" THEN "closed" ELSE @,
                            !.target_contexts =
                                IF s.ctx = "target" THEN @ - 1 ELSE @]
    IN  IF s.browser = "open" /\ ~f
        THEN [s |-> [closed EXCEPT !.page = "open", !.hooks = FALSE,
                                   !.ctx = "target", !.target_contexts = @ + 1],
              raised |-> "none"]
        ELSE [s |-> closed, raised |-> "Exception"]

\* await self.page.wait_for_timeout(...): closed: the page closes meanwhile
wait_for_timeout(s, closed) ==
    IF s.page = "open" /\ ~closed
    THEN [s |-> s, raised |-> "none"]
    ELSE [s |-> PageGone(s), raised |-> "TargetClosedError"]

\* The scraper fields the session steps leave alone.
orch_idle == << mode, positional_click, x_attempt, source_code, page_visible,
                result, seen, clipboard, saves, rawValid, codeValid, allEmpty,
                xCaps, capCount, navCount, navFailed, softCount, hardCount,
                page_text >>

InitSession ==
    /\ positional_click \in BOOLEAN
    /\ InitScraper("batch", "s_init")
    /\ SaveOff
    /\ ResumeOff
    /\ SessionInit
    /\ CheckerOff
    /\ DatesOff
    /\ CaptureOff
    /\ AuxOff

\* A caller's own cleanup(), as in the finally of batch_download: on an object
\* never set up, after a setup that raised, or after download_all cleaned up.
SE_CallCleanup ==
    /\ pc \in {"s_init", "s_setup_raised", "s_returned"}
    /\ \E fc \in BOOLEAN, fs \in BOOLEAN :
         LET c == cleanup(session, fc, fs)
         IN session' = c.s /\ cleanup_log' = c.log
    /\ UNCHANGED << pc, idx, attempt, succeeded, stats, orch_idle, results, exc,
                    setup_failed >>
    /\ UNCHANGED << save_vars, resume_vars, checker_vars, date_vars, capture_vars, aux_vars >>

\* download_all: await self.setup(), before the try
SE_Setup ==
    /\ pc = "s_init"
    /\ \E o \in SetupOutcomes :
         LET r == setup(session, o)
         IN /\ session' = r.s
            /\ exc' = r.raised
            /\ setup_failed' = (r.raised # "none")
            /\ pc' = IF r.raised = "none" THEN "s_listing" ELSE "s_setup_raised"
    /\ UNCHANGED << idx, attempt, succeeded, stats, orch_idle, results,
                    cleanup_log >>
    /\ UNCHANGED << save_vars, resume_vars, checker_vars, date_vars, capture_vars, aux_vars >>

\* download_all: the listing and the worklist; an empty one returns through
\* the finally, a full one has NumTargets Targets.
SE_Listing ==
    /\ pc = "s_listing"
    /\ \E found \in BOOLEAN, fc \in BOOLEAN, fs \in BOOLEAN :
         IF found
         THEN pc' = "s_target" /\ UNCHANGED << session, cleanup_log >>
         ELSE LET c == cleanup(session, fc, fs)
              IN pc' = "s_returned" /\ session' = c.s /\ cleanup_log' = c.log
    /\ UNCHANGED << idx, attempt, succeeded, stats, orch_idle, results, exc,
                    setup_failed >>
    /\ UNCHANGED << save_vars, resume_vars, checker_vars, date_vars, capture_vars, aux_vars >>

\* download_all, per Target: the isolated context and page with the
\* copy-capture init script, or the existing page when creating them fails
SE_IsolatedContext ==
    /\ pc = "s_target"
    /\ \E f \in BOOLEAN :
         session' = IF session.browser = "open" /\ ~f
                    THEN [session EXCEPT !.old_page = session.page,
                                         !.old_hooks = session.hooks,
                                         !.page = "open",
                                         !.hooks = TRUE,
                                         !.ctx = "target",
                                         !.target_contexts = @ + 1,
                                         !.script_context_created = TRUE]
                    ELSE [session EXCEPT !.old_page = session.page,
                                         !.old_hooks = session.hooks,
                                         !.script_context_created = FALSE]
    /\ attempt' = 1
    /\ succeeded' = FALSE
    /\ pc' = "s_attempt"
    /\ UNCHANGED << idx, stats, orch_idle, results, exc, cleanup_log,
                    setup_failed >>
    /\ UNCHANGED << save_vars, resume_vars, checker_vars, date_vars, capture_vars, aux_vars >>

\* The values of a fault input: either way where the step c happens, absent
\* where it does not.
When(c) == IF c THEN BOOLEAN ELSE {FALSE}

\* The outcomes of a setup() call, where one is made.
SetupWhen(c) == IF c THEN SetupOutcomes ELSE {"ok"}

\* download_all, one attempt: extract_pine_source (with or without its own
\* browser restart), results.append, then the save, the skip or the retry;
\* k is what extract_pine_source hands back.  extract_pine_source adds its
\* copy-capture init script to the page on entry in positional mode; cap: the
\* failing call got as far as its capture attempts; after its own restart a
\* capture follows only in positional mode (the click after the Source tab).
SE_Attempt ==
    /\ pc = "s_attempt"
    /\ \E k \in {"saved", "classified", "failed"}, hard \in When(session.page = "open") :
       \E closed \in When(k = "failed"), save_raises \in When(k = "saved"),
          fc \in When(hard), fs \in When(hard), o \in SetupWhen(hard),
          cap \in When(k = "failed" /\ ~hard /\ session.page = "open") :
         LET entry == IF positional_click /\ session.page = "open"
                      THEN [session EXCEPT !.hooks = TRUE] ELSE session
             r == IF hard THEN restart(entry, fc, fs, o)
                  ELSE [s |-> entry, raised |-> "none", log |-> cleanup_log]
             unhooked == \/ (k = "saved" \/ hard \/ cap) /\ ~entry.hooks
                         \/ hard /\ positional_click /\ r.raised = "none"
             s2 == [(IF k = "failed" /\ closed THEN PageGone(r.s) ELSE r.s)
                       EXCEPT !.capture_unhooked = @ \/ unhooked]
         IN /\ (hard \/ k # "failed") => session.page = "open"
            /\ (k = "classified") => ~hard
            /\ (k = "saved" /\ hard) => positional_click
            /\ (k # "failed") => (r.raised = "none" /\ ~closed)
            /\ (k # "saved") => ~save_raises
            /\ session' = s2
            /\ cleanup_log' = r.log
            /\ setup_failed' = (setup_failed \/ r.raised # "none")
            /\ results' = results + 1
            /\ CASE k = "saved" /\ save_raises ->
                      /\ exc' = "Exception" /\ pc' = "s_except"
                      /\ UNCHANGED << stats, succeeded >>
                 [] k = "saved" /\ ~save_raises ->
                      /\ stats' = [stats EXCEPT !.downloaded = @ + 1]
                      /\ succeeded' = TRUE /\ pc' = "s_finally"
                      /\ UNCHANGED exc
                 [] k = "classified" ->
                      /\ stats' = [stats EXCEPT !.skipped_protected = @ + 1]
                      /\ succeeded' = TRUE /\ pc' = "s_finally"
                      /\ UNCHANGED exc
                 [] OTHER ->
                      /\ pc' = "s_retry"
                      /\ UNCHANGED << stats, succeeded, exc >>
    /\ UNCHANGED << idx, attempt, orch_idle >>
    /\ UNCHANGED << save_vars, resume_vars, checker_vars, date_vars,
                    capture_vars, aux_vars >>

\* continue / the end of "for attempt in range(1, max_attempts + 1)"
SE_Continue ==
    IF attempt < max_attempts
    THEN attempt' = attempt + 1 /\ pc' = "s_attempt"
    ELSE attempt' = attempt /\ pc' = "s_finally"

\* download_all, "No source found": on attempt 2 the soft restart with its
\* fallback to cleanup and setup, then the wait and continue
SE_Retry ==
    /\ pc = "s_retry"
    /\ \E f \in When(attempt = 2), closed \in BOOLEAN :
       \E fc \in When(_restart_context(session, f).raised # "none"),
          fs \in When(_restart_context(session, f).raised # "none"),
          o \in SetupWhen(_restart_context(session, f).raised # "none") :
         LET soft == IF attempt = 2 THEN _restart_context(session, f)
                     ELSE [s |-> session, raised |-> "none"]
             r == IF soft.raised # "none" THEN restart(soft.s, fc, fs, o)
                  ELSE soft @@ [log |-> cleanup_log]
             w == IF r.raised = "none" THEN wait_for_timeout(r.s, closed)
                  ELSE [s |-> r.s, raised |-> r.raised]
         IN /\ session' = w.s
            /\ cleanup_log' = r.log
            /\ setup_failed' = (setup_failed \/ r.raised # "none")
            /\ exc' = w.raised
            /\ IF w.raised = "none" THEN SE_Continue
               ELSE pc' = "s_except" /\ UNCHANGED attempt
    /\ UNCHANGED << idx, succeeded, stats, orch_idle, results >>
    /\ UNCHANGED << save_vars, resume_vars, checker_vars, date_vars, capture_vars, aux_vars >>

\* download_all: except TargetClosedError: cleanup and setup, both guarded,
\* then the short wait on the new page, which nothing guards
SE_TargetClosed ==
    /\ pc = "s_except" /\ exc = "TargetClosedError"
    /\ \E closed \in BOOLEAN, fc \in BOOLEAN, fs \in BOOLEAN,
          o \in SetupOutcomes :
         LET r == restart(session, fc, fs, o)
             w == IF r.raised = "none" THEN wait_for_timeout(r.s, closed)
                  ELSE [s |-> r.s, raised |-> "none"]
         IN /\ session' = w.s
            /\ cleanup_log' = r.log
            /\ setup_failed' = (setup_failed \/ r.raised # "none")
            /\ exc' = w.raised
            /\ IF w.raised = "none" THEN SE_Continue
               ELSE pc' = "s_finally" /\ UNCHANGED attempt
    /\ UNCHANGED << idx, succeeded, stats, orch_idle, results >>
    /\ UNCHANGED << save_vars, resume_vars, checker_vars, date_vars, capture_vars, aux_vars >>

\* download_all: except Exception: on attempt 2 cleanup, guarded, and setup,
\* which nothing guards
SE_Exception ==
    /\ pc = "s_except" /\ exc \in ExceptionSubclasses \ {"TargetClosedError"}
    /\ \E fc \in When(attempt = 2), fs \in When(attempt = 2),
          o \in SetupWhen(attempt = 2) :
         LET r == IF attempt = 2 THEN restart(session, fc, fs, o)
                  ELSE [s |-> session, raised |-> "none", log |-> cleanup_log]
         IN /\ session' = r.s
            /\ cleanup_log' = r.log
            /\ setup_failed' = (setup_failed \/ r.raised # "none")
            /\ exc' = r.raised
            /\ IF r.raised = "none" THEN SE_Continue
               ELSE pc' = "s_finally" /\ UNCHANGED attempt
    /\ UNCHANGED << idx, succeeded, stats, orch_idle, results >>
    /\ UNCHANGED << save_vars, resume_vars, checker_vars, date_vars, capture_vars, aux_vars >>

\* download_all: the finally of the Target (self.context is closed if the
\* Target had an isolated context, the listing context and page are
\* restored), then failed += 1 and the wait between scripts; an exception in
\* flight leaves through the outer finally instead
SE_Finally ==
    /\ pc = "s_finally"
    /\ \E closed \in When(exc = "none" /\ idx < NumTargets) :
       \E fc \in When(exc # "none" \/ closed \/ session.old_page # "open"),
          fs \in When(exc # "none" \/ closed \/ session.old_page # "open"),
          o \in SetupWhen(exc = "none" /\ idx < NumTargets
                           /\ (closed \/ session.old_page # "open")) :
         LET restored == [session EXCEPT
                             !.target_contexts =
                                 IF /\ session.script_context_created
                                    /\ session.ctx = "target"
                                 THEN @ - 1 ELSE @,
                             !.page = session.old_page,
                             !.hooks = session.old_hooks,
                             !.ctx = "listing",
                             !.restored_page = session.old_page,
                             !.script_context_created = FALSE]
             w == wait_for_timeout(restored, closed)
             r == restart(w.s, fc, fs, o)
         IN IF exc # "none"
            THEN LET c == cleanup(restored, fc, fs)
                 IN /\ session' = c.s /\ cleanup_log' = c.log
                    /\ pc' = "s_returned"
                    /\ UNCHANGED << idx, stats, setup_failed >>
            ELSE /\ stats' = IF succeeded THEN stats
                             ELSE [stats EXCEPT !.failed = @ + 1]
                 /\ IF idx < NumTargets
                    THEN /\ idx' = idx + 1 /\ pc' = "s_target"
                         /\ IF w.raised = "none"
                            THEN /\ session' = w.s
                                 /\ UNCHANGED << cleanup_log, setup_failed >>
                            ELSE /\ session' = r.s
                                 /\ cleanup_log' = r.log
                                 /\ setup_failed' =
                                       (setup_failed \/ r.raised # "none")
                    ELSE /\ pc' = "s_summary" /\ session' = restored
                         /\ UNCHANGED << idx, cleanup_log, setup_failed >>
    /\ UNCHANGED << attempt, succeeded, orch_idle, results, exc >>
    /\ UNCHANGED << save_vars, resume_vars, checker_vars, date_vars, capture_vars, aux_vars >>

\* download_all: _export_metadata, _print_summary, then the outer finally
SE_Summary ==
    /\ pc = "s_summary"
    /\ \E fc \in BOOLEAN, fs \in BOOLEAN :
         LET c == cleanup(session, fc, fs)
         IN session' = c.s /\ cleanup_log' = c.log
    /\ pc' = "s_returned"
    /\ UNCHANGED << idx, attempt, succeeded, stats, orch_idle, results, exc,
                    setup_failed >>
    /\ UNCHANGED << save_vars, resume_vars, checker_vars, date_vars, capture_vars, aux_vars >>

NextSession ==
    \/ SE_CallCleanup
    \/ SE_Setup
    \/ SE_Listing
    \/ SE_IsolatedContext
    \/ SE_Attempt
    \/ SE_Retry
    \/ SE_TargetClosed
    \/ SE_Exception
    \/ SE_Finally
    \/ SE_Summary

SpecSession == InitSession /\ [][NextSession]_vars

\* ===================================================== check_removed_fast
\* run() with its worker tasks on one event loop.  A worker is "loop" at the
\* head of its while loop, "fetch" while it awaits fetch_head / fetch_partial
\* for its item, "done" once it returned, "cancelled" once cancelled.  The
\* semaphore has as many slots as there are workers and never blocks.
InitChecker ==
    /\ positional_click = FALSE
    /\ InitScraper("batch", "off")
    /\ SaveOff
    /\ ResumeOff
    /\ SessionInit
    /\ DatesOff
    /\ CaptureOff
    /\ AuxOff
    /\ q \in [1..NumUrls -> 1..NumUrls]
    /\ ck_results = Empty
    /\ unfinished_tasks = NumUrls
    /\ tasks = [w \in 1..Concurrency |-> [pc |-> "loop", item |-> 0]]
    /\ progress \in SUBSET (1..NumUrls)
    /\ SHOULD_STOP = FALSE
    /\ run_pc = "join"
    /\ progress_file = {0}

\* worker, as it would be if the branch for a URL already in progress went
\* back to the loop head without queue.task_done()
CK_Get_no_task_done(w) ==
    /\ tasks[w].pc = "loop" /\ q # Empty /\ ~SHOULD_STOP
    /\ q' = Tail(q)
    /\ IF Head(q) \in progress
       THEN UNCHANGED << unfinished_tasks, tasks >>
       ELSE /\ tasks' = [tasks EXCEPT ![w] = [pc |-> "fetch", item |-> Head(q)]]
            /\ UNCHANGED unfinished_tasks
    /\ UNCHANGED << ck_results, progress, SHOULD_STOP, run_pc, progress_file >>
    /\ UNCHANGED << orch_vars, save_vars, resume_vars, session_vars, date_vars, capture_vars, aux_vars >>

\* worker: item = await queue.get(); a URL already in progress is only
\* marked task_done
CK_Get(w) ==
    /\ tasks[w].pc = "loop" /\ q # Empty /\ ~SHOULD_STOP
    /\ q' = Tail(q)
    /\ IF Head(q) \in progress
       THEN unfinished_tasks' = unfinished_tasks - 1 /\ UNCHANGED tasks
       ELSE /\ tasks' = [tasks EXCEPT ![w] = [pc |-> "fetch", item |-> Head(q)]]
            /\ UNCHANGED unfinished_tasks
    /\ UNCHANGED << ck_results, progress, SHOULD_STOP, run_pc, progress_file >>
    /\ UNCHANGED << orch_vars, save_vars, resume_vars, session_vars, date_vars, capture_vars, aux_vars >>

\* worker: the fetches return, the result is recorded, queue.task_done()
CK_Fetch(w) ==
    /\ tasks[w].pc = "fetch"
    /\ ck_results' = Append(ck_results, tasks[w].item)
    /\ progress' = progress \cup {tasks[w].item}
    /\ unfinished_tasks' = unfinished_tasks - 1
    /\ tasks' = [tasks EXCEPT ![w] = [pc |-> "loop", item |-> 0]]
    /\ UNCHANGED << q, SHOULD_STOP, run_pc, progress_file >>
    /\ UNCHANGED << orch_vars, save_vars, resume_vars, session_vars, date_vars, capture_vars, aux_vars >>

\* worker: while not queue.empty() and not SHOULD_STOP, false
CK_WorkerExit(w) ==
    /\ tasks[w].pc = "loop" /\ (q = Empty \/ SHOULD_STOP)
    /\ tasks' = [tasks EXCEPT ![w].pc = "done"]
    /\ UNCHANGED << q, ck_results, unfinished_tasks, progress, SHOULD_STOP, run_pc,
                    progress_file >>
    /\ UNCHANGED << orch_vars, save_vars, resume_vars, session_vars, date_vars, capture_vars, aux_vars >>

\* run._cancel, the handler of SIGINT and SIGTERM: SHOULD_STOP and t.cancel()
\* for every worker task; CancelledError ends each task that has not returned
\* at the await it is suspended in, before its task_done
CK_Signal ==
    /\ run_pc = "join" /\ ~SHOULD_STOP
    /\ SHOULD_STOP' = TRUE
    /\ tasks' = [w \in 1..Concurrency |->
                   IF tasks[w].pc = "done" THEN tasks[w]
                   ELSE [tasks[w] EXCEPT !.pc = "cancelled"]]
    /\ UNCHANGED << q, ck_results, unfinished_tasks, progress, run_pc, progress_file >>
    /\ UNCHANGED << orch_vars, save_vars, resume_vars, session_vars, date_vars, capture_vars, aux_vars >>

\* run: await q.join() returns once every item is task_done; the finally
\* writes the progress file, the remaining tasks are cancelled, run returns
CK_JoinReturns ==
    /\ run_pc = "join" /\ unfinished_tasks = 0
    /\ progress_file' = progress
    /\ run_pc' = "returned"
    /\ tasks' = [w \in 1..Concurrency |->
                   IF tasks[w].pc = "done" THEN tasks[w]
                   ELSE [tasks[w] EXCEPT !.pc = "cancelled"]]
    /\ UNCHANGED << q, ck_results, unfinished_tasks, progress, SHOULD_STOP >>
    /\ UNCHANGED << orch_vars, save_vars, resume_vars, session_vars, date_vars, capture_vars, aux_vars >>

NextChecker ==
    \/ \E w \in 1..Concurrency : CK_Get(w)
    \/ \E w \in 1..Concurrency : CK_Fetch(w)
    \/ \E w \in 1..Concurrency : CK_WorkerExit(w)
    \/ CK_Signal
    \/ CK_JoinReturns

SpecChecker == InitChecker /\ [][NextChecker]_vars

\* The event loop runs every task that is ready, and every request has the
\* timeout args.timeout: a worker step that can be taken is taken, and so is
\* the return of q.join().  The signal has no such guarantee.
SpecCheckerFair ==
    /\ SpecChecker
    /\ \A w \in 1..Concurrency :
           WF_vars(CK_Get(w)) /\ WF_vars(CK_Fetch(w)) /\ WF_vars(CK_WorkerExit(w))
    /\ WF_vars(CK_JoinReturns)


\* ===================================================== date normalizers
\* scrape_pubdates.parse_pubtext, merge_pubdates_with_pines.parse_date_string
\* and the parsing part of extract_exact_publish_date.  A publish text is a
\* sequence of words (the white space between them is left out, " " is white
\* space at an end); an instant is a proleptic Gregorian ordinal day with the
\* seconds of that day.

\* int(): the numerals of the model's texts
NumeralValue ==
    [ n \in {"0", "3", "28", "29", "30", "02", "0000", "2000", "2024", "2025",
             "5000", "3000000"} |->
        CASE n = "0" -> 0 [] n = "3" -> 3 [] n = "28" -> 28 [] n = "29" -> 29
          [] n = "30" -> 30 [] n = "02" -> 2 [] n = "0000" -> 0
          [] n = "2000" -> 2000 [] n = "2024" -> 2024 [] n = "2025" -> 2025
          [] n = "5000" -> 5000 [] OTHER -> 3000000 ]

\* \d{1,2} and \d{4}
DayNumerals == {"0", "3", "28", "29", "30", "02"}
YearNumerals == {"0000", "2000", "2024", "2025", "5000"}

\* group('unit').lower() of REL_RE for a unit word (the s? is outside the group)
RelUnit ==
    [ w \in {"second", "minutes", "Hours", "day", "days", "week", "months",
             "years"} |->
        CASE w = "minutes" -> "minute" [] w = "Hours" -> "hour"
          [] w = "days" -> "day" [] w = "months" -> "month"
          [] w = "years" -> "year" [] OTHER -> w ]

\* m.group('mon')[:3].title() for the words \w{3,9} matches
MonTitle(w) ==
    CASE w \in {"February", "FEB", "feb"} -> "Feb"
      [] OTHER -> w

MONTHS == [ m \in {"Jan", "Feb", "Dec"} |->
              CASE m = "Jan" -> 1 [] m = "Feb" -> 2 [] OTHER -> 12 ]

\* datetime: _is_leap, _days_in_month, _days_before_year, _days_before_month
IsLeap(y) == y % 4 = 0 /\ (y % 100 # 0 \/ y % 400 = 0)

DaysInMonth(y, m) ==
    IF m = 2 THEN (IF IsLeap(y) THEN 29 ELSE 28)
    ELSE IF m \in {4, 6, 9, 11} THEN 30 ELSE 31

DaysBeforeYear(y) == (y - 1) * 365 + (y - 1) \div 4 - (y - 1) \div 100 + (y - 1) \div 400

RECURSIVE DaysBeforeMonth(_, _)
DaysBeforeMonth(y, m) ==
    IF m = 1 THEN 0 ELSE DaysBeforeMonth(y, m - 1) + DaysInMonth(y, m - 1)

\* datetime(year, month, day, tzinfo=timezone.utc): ValueError outside
\* MINYEAR..MAXYEAR and for a day the month does not have
datetime(y, m, d) ==
    IF y < 1 \/ y > 9999 \/ d < 1 \/ d > DaysInMonth(y, m)
    THEN [raised |-> "ValueError", day |-> 0, sec |-> 0]
    ELSE [raised |-> "none",
          day |-> DaysBeforeYear(y) + DaysBeforeMonth(y, m) + d, sec |-> 0]

\* timedelta(<unit>s=num), normalized to days and seconds; OverflowError above
\* 999999999 days (a month is 30 days, a year 365 days, as the callers put it)
timedelta(unit, num) ==
    LET days == CASE unit = "second" -> num \div 86400
                  [] unit = "minute" -> num \div 1440
                  [] unit = "hour"   -> num \div 24
                  [] unit = "day"    -> num
                  [] unit = "week"   -> 7 * num
                  [] unit = "month"  -> 30 * num
                  [] OTHER           -> 365 * num
        seconds == CASE unit = "second" -> num % 86400
                     [] unit = "minute" -> (num % 1440) * 60
                     [] unit = "hour"   -> (num % 24) * 3600
                     [] OTHER           -> 0
    IN  [raised |-> IF days > 999999999 THEN "OverflowError" ELSE "none",
         days |-> days, seconds |-> seconds]

\* now as an instant
Instant(n) == [datetime(n.year, n.month, n.day) EXCEPT !.sec = n.sec]

\* dt - td: OverflowError when the date falls before 0001-01-01
MinusDelta(dt, td) ==
    LET borrow == IF dt.sec < td.seconds THEN 1 ELSE 0
        day == dt.day - td.days - borrow
    IN  IF td.raised # "none" THEN [raised |-> td.raised, day |-> 0, sec |-> 0]
        ELSE IF day < 1 THEN [raised |-> "OverflowError", day |-> 0, sec |-> 0]
        ELSE [raised |-> "none", day |-> day,
              sec |-> dt.sec - td.seconds + borrow * 86400]

\* REL_RE.search(s): the first place with a numeral, a unit word and "ago";
\* 0 without a match
RelMatch(s) ==
    LET at == { i \in 1..(Len(s) - 2) :
                  /\ s[i] \in DOMAIN NumeralValue
                  /\ s[i + 1] \in DOMAIN RelUnit
                  /\ s[i + 2] \in {"ago", "Ago"} }
    IN  IF at = {} THEN 0 ELSE CHOOSE i \in at : \A j \in at : i <= j

\* the relative branch: now - timedelta(...), no try around it
RelativeInstant(s, now) ==
    LET i == RelMatch(s)
    IN  MinusDelta(Instant(now), timedelta(RelUnit[s[i + 1]], NumeralValue[s[i]]))

\* ABS_MONTH_DAY_YEAR.match(s): ^\w{3,9}\s+\d{1,2},\s*\d{4}$
MonthDayYearMatch(s) ==
    /\ Len(s) = 4
    /\ s[1] \notin {" ", ",", "-"} /\ s[2] \in DayNumerals
    /\ s[3] = "," /\ s[4] \in YearNumerals

\* ABS_MONTH_DAY.match(s): ^\w{3,9}\s+\d{1,2}$
MonthDayMatch(s) ==
    Len(s) = 2 /\ s[1] \notin {" ", ",", "-"} /\ s[2] \in DayNumerals

\* the absolute branch, where mon in MONTHS
MonthDayYearInstant(s) ==
    datetime(NumeralValue[s[4]], MONTHS[MonTitle(s[1])], NumeralValue[s[2]])

\* dt > now + timedelta(days=1)
LaterThanTomorrow(dt, now) ==
    dt.day > Instant(now).day + 1
      \/ (dt.day = Instant(now).day + 1 /\ dt.sec > now.sec)

\* parse_pubtext, the month and day branch: this year, or last year when that
\* lies more than a day ahead
MonthDayInstant(s, now) ==
    LET dt == datetime(now.year, MONTHS[MonTitle(s[1])], NumeralValue[s[2]])
    IN  IF dt.raised = "none" /\ LaterThanTomorrow(dt, now)
        THEN datetime(now.year - 1, MONTHS[MonTitle(s[1])], NumeralValue[s[2]])
        ELSE dt

\* datetime.fromisoformat(s) for the texts YYYY-MM-DD; ValueError for the rest
fromisoformat(s) ==
    IF /\ Len(s) = 5 /\ s[1] \in YearNumerals /\ s[2] = "-" /\ s[3] = "02"
       /\ s[4] = "-" /\ s[5] \in DayNumerals \ {"0", "3"}
    THEN datetime(NumeralValue[s[1]], NumeralValue[s[3]], NumeralValue[s[5]])
    ELSE [raised |-> "ValueError", day |-> 0, sec |-> 0]

\* s.lower().startswith(w) for w = 'today' and w = 'yesterday'
StartsWithWord(s, w) ==
    /\ s # Empty
    /\ \/ w = "today" /\ s[1] = "Today"
       \/ w = "yesterday" /\ s[1] = "Yesterday"

\* What a normalizer hands back: the instant (dt set), the text (text set) or
\* None for either; raised is the exception that left the function.
Returns(dt, text) ==
    [raised |-> "none", dt |-> [set |-> TRUE, day |-> dt.day, sec |-> dt.sec],
     text |-> text]

ReturnsNone(text) ==
    [raised |-> "none", dt |-> [set |-> FALSE, day |-> 0, sec |-> 0],
     text |-> text]

Raises(e) ==
    [raised |-> e, dt |-> [set |-> FALSE, day |-> 0, sec |-> 0],
     text |-> [set |-> FALSE, s |-> Empty]]

Text(s) == [set |-> TRUE, s |-> s]

NoText == [set |-> FALSE, s |-> Empty]

\* The steps the three normalizers share once the relative and the absolute
\* branch are behind them: ISO, RFC-2822 (no text of the model has that form,
\* parsedate_to_datetime raises and the except passes), today, yesterday;
\* norm is the text handed back beside an instant, unparsed what is handed
\* back when nothing parsed
ParseTail(s, now, norm, unparsed) ==
    IF fromisoformat(s).raised = "none" THEN Returns(fromisoformat(s), norm)
    ELSE IF StartsWithWord(s, "today") THEN Returns(Instant(now), norm)
    ELSE IF StartsWithWord(s, "yesterday")
         THEN Returns(MinusDelta(Instant(now), timedelta("day", 1)), norm)
    ELSE ReturnsNone(unparsed)

\* scrape_pubdates.parse_pubtext: (dt, s); the two absolute branches sit in
\* try ... except Exception: pass
parse_pubtext(pubtext, now) ==
    LET s == Strip(pubtext)
    IN  IF pubtext = Empty THEN ReturnsNone(NoText)
        ELSE IF RelMatch(s) # 0
        THEN LET dt == RelativeInstant(s, now)
             IN  IF dt.raised # "none" THEN Raises(dt.raised)
                 ELSE Returns(dt, Text(s))
        ELSE IF /\ MonthDayYearMatch(s) /\ MonTitle(s[1]) \in DOMAIN MONTHS
                /\ MonthDayYearInstant(s).raised = "none"
        THEN Returns(MonthDayYearInstant(s), Text(s))
        ELSE IF /\ MonthDayMatch(s) /\ MonTitle(s[1]) \in DOMAIN MONTHS
                /\ MonthDayInstant(s, now).raised = "none"
        THEN Returns(MonthDayInstant(s, now), Text(s))
        ELSE ParseTail(s, now, Text(s), Text(s))

\* merge_pubdates_with_pines.parse_date_string (unparsed: None) and the
\* parsing part of extract_exact_publish_date (unparsed: pubtext); the ISO
\* text of the instant stands for the instant.  The absolute branch calls
\* datetime(year, MONTHS[mon], day) with no try around it.
parse_date_string(pubtext, now, unparsed) ==
    LET s == Strip(pubtext)
    IN  IF pubtext = Empty THEN ReturnsNone(NoText)
        ELSE IF RelMatch(s) # 0
        THEN LET dt == RelativeInstant(s, now)
             IN  IF dt.raised # "none" THEN Raises(dt.raised)
                 ELSE Returns(dt, NoText)
        ELSE IF MonthDayYearMatch(s) /\ MonTitle(s[1]) \in DOMAIN MONTHS
        THEN LET dt == MonthDayYearInstant(s)
             IN  IF dt.raised # "none" THEN Raises(dt.raised)
                 ELSE Returns(dt, NoText)
        ELSE ParseTail(s, now, NoText, unparsed)

\* Publish texts: relative, month day year, month day, ISO, and the rest.
MonWords == {"Feb", "FEB", "February", "Dec", "Foo"}

DateTexts ==
    { <<n, u, "ago">> : n \in {"3", "2000", "5000", "3000000"}, u \in DOMAIN RelUnit }
      \cup { <<m, d, ",", y>> : m \in MonWords, d \in {"0", "28", "29", "30"},
                                 y \in {"0000", "2024", "2025"} }
      \cup { <<m, d>> : m \in MonWords, d \in {"28", "29", "30"} }
      \cup { <<"2025", "-", "02", "-", d>> : d \in {"28", "30"} }
      \cup { Empty, <<"Today">>, <<"Yesterday">>, <<"hello">>,
             <<" ", "Feb", "30", ",", "2025", " ">>, <<"Updated", "3", "days", "Ago">> }

\* The clock of the run.
NowInstants ==
    { [year |-> 2026, month |-> 11, day |-> 4, sec |-> 17249],
      [year |-> 2024, month |-> 2, day |-> 27, sec |-> 0] }

InitDates ==
    /\ positional_click = FALSE
    /\ InitScraper("batch", "off")
    /\ SaveOff
    /\ ResumeOff
    /\ SessionInit
    /\ CheckerOff
    /\ CaptureOff
    /\ AuxOff
    /\ dt_pc = "text"
    /\ dt_text \in DateTexts
    /\ dt_now \in NowInstants
    /\ dt_out = [fn |-> ""] @@ ReturnsNone(NoText)

\* scrape_pubdates.main: dt, norm = parse_pubtext(pubtext)
DT_ParsePubtext ==
    /\ dt_pc = "text"
    /\ dt_out' = [fn |-> "parse_pubtext"] @@ parse_pubtext(dt_text, dt_now)
    /\ dt_pc' = "parsed"
    /\ UNCHANGED << dt_now, dt_text, orch_vars, save_vars, resume_vars,
                    session_vars, checker_vars, capture_vars, aux_vars >>

\* merge_pubdates_with_pines: parse_date_string(pub_raw)
DT_ParseDateString ==
    /\ dt_pc = "text"
    /\ dt_out' = [fn |-> "parse_date_string"]
                   @@ parse_date_string(dt_text, dt_now, NoText)
    /\ dt_pc' = "parsed"
    /\ UNCHANGED << dt_now, dt_text, orch_vars, save_vars, resume_vars,
                    session_vars, checker_vars, capture_vars, aux_vars >>

\* extract_exact_publish_date, from "if not pubtext" on
DT_ExtractExact ==
    /\ dt_pc = "text"
    /\ dt_out' = [fn |-> "extract_exact_publish_date"]
                   @@ parse_date_string(dt_text, dt_now, Text(dt_text))
    /\ dt_pc' = "parsed"
    /\ UNCHANGED << dt_now, dt_text, orch_vars, save_vars, resume_vars,
                    session_vars, checker_vars, capture_vars, aux_vars >>

NextDates ==
    \/ DT_ParsePubtext
    \/ DT_ParseDateString
    \/ DT_ExtractExact

SpecDates == InitDates /\ [][NextDates]_vars


\* ===================================================== one capture attempt
\* The body of one pass of the capture loop of extract_pine_source with
\* _try_copy_button_extraction, on a page with one visible copy button.
\* channels holds what each read yields: the data attribute, the in-page
\* buffer after the click, the OS clipboard after the click, and the
\* positional click; tried lists the reads in the order they are made.

\* What a read can yield: nothing, text without a marker, text with one.
ChannelTexts == { Empty, <<"x">>, <<"V">>, <<"V", "x">> }

\* _try_positional_click_extraction: the captured text if it holds a marker
_try_positional_click_extraction(ch) ==
    IF IsPlausible(ch.positional) THEN ch.positional ELSE Empty

\* (_try_copy_button_extraction_clipboard_first: the OS clipboard is read
\* before the in-page buffer)
_try_copy_button_extraction_clipboard_first(ch) ==
    IF IsPlausible(ch.attribute)
    THEN [source_code |-> ch.attribute, tried |-> <<"attribute">>]
    ELSE IF IsPlausible(ch.clipboard)
    THEN [source_code |-> ch.clipboard, tried |-> <<"attribute", "clipboard">>]
    ELSE IF IsPlausible(ch.buffer)
    THEN [source_code |-> ch.buffer,
          tried |-> <<"attribute", "clipboard", "buffer">>]
    ELSE [source_code |-> Empty, tried |-> <<"attribute", "clipboard", "buffer">>]

\* _try_copy_button_extraction: 1) the data attributes, 2) the click, then the
\* in-page buffer, then navigator.clipboard.readText; '' when none has a marker
_try_copy_button_extraction(ch) ==
    IF IsPlausible(ch.attribute)
    THEN [source_code |-> ch.attribute, tried |-> <<"attribute">>]
    ELSE IF IsPlausible(ch.buffer)
    THEN [source_code |-> ch.buffer, tried |-> <<"attribute", "buffer">>]
    ELSE IF IsPlausible(ch.clipboard)
    THEN [source_code |-> ch.clipboard,
          tried |-> <<"attribute", "buffer", "clipboard">>]
    ELSE [source_code |-> Empty, tried |-> <<"attribute", "buffer", "clipboard">>]

\* extract_pine_source, the try of one pass: with positional_click the
\* positional click first; "if not source_code" the copy buttons
CaptureAttempt(positional, ch) ==
    LET first == IF positional THEN _try_positional_click_extraction(ch) ELSE Empty
        buttons == _try_copy_button_extraction(ch)
    IN  IF first # Empty THEN [source_code |-> first, tried |-> <<"positional">>]
        ELSE IF positional
        THEN [buttons EXCEPT !.tried = <<"positional">> \o @]
        ELSE buttons

InitCapture ==
    /\ positional_click \in BOOLEAN
    /\ InitScraper("single", "c_attempt")
    /\ SaveOff
    /\ ResumeOff
    /\ SessionInit
    /\ CheckerOff
    /\ DatesOff
    /\ AuxOff
    /\ channels \in [attribute : ChannelTexts, buffer : ChannelTexts,
                     clipboard : ChannelTexts, positional : ChannelTexts]
    /\ tried = Empty

\* One pass of the capture loop up to "if source_code:"
CA_Attempt ==
    /\ pc = "c_attempt"
    /\ LET r == CaptureAttempt(positional_click, channels)
       IN  /\ source_code' = r.source_code
           /\ tried' = r.tried
    /\ pc' = "c_done"
    /\ UNCHANGED << mode, positional_click, idx, attempt, succeeded, x_attempt,
                    page_visible, result, seen, clipboard, stats, saves,
                    rawValid, codeValid, allEmpty, xCaps, capCount, navCount,
                    navFailed, softCount, hardCount, page_text, channels >>
    /\ UNCHANGED << save_vars, resume_vars, session_vars, checker_vars,
                    date_vars, aux_vars >>

NextCapture == CA_Attempt

SpecCapture == InitCapture /\ [][NextCapture]_vars


\* ------------------------------------------------- _normalize_source
\* The characters of the texts handed to _normalize_source: those of Chars
\* and the letters of the escapes \r and \t.
NormChars == Chars \cup {"r", "t"}

NormTexts == {Empty} \cup UNION { [1..n -> NormChars] : n \in 1..MaxRawLen }

\* The scraper, the checker and the date normalizers at rest.
CoreOff ==
    /\ positional_click = FALSE
    /\ InitScraper("batch", "off")
    /\ SaveOff
    /\ ResumeOff
    /\ SessionInit
    /\ CheckerOff
    /\ DatesOff
    /\ CaptureOff

InitNorm ==
    /\ CoreOff
    /\ PubOff
    /\ JsonOff
    /\ ListingOff
    /\ OverlayOff
    /\ nm_pc = "raw"
    /\ nm_in \in NormTexts
    /\ nm_out = Empty

\* extract_pine_source: source_code = self._normalize_source(source_code)
NM_Normalize ==
    /\ nm_pc = "raw"
    /\ nm_out' = _normalize_source(nm_in)
    /\ nm_pc' = "once"
    /\ UNCHANGED << nm_in, core_vars, overlay_vars, listing_vars, json_vars, pub_vars >>

\* _normalize_source once more, on the text it returned
NM_Again ==
    /\ nm_pc = "once"
    /\ nm_out' = _normalize_source(nm_out)
    /\ nm_pc' = "twice"
    /\ UNCHANGED << nm_in, core_vars, overlay_vars, listing_vars, json_vars, pub_vars >>

\* dump_copy_diagnostics: the normalized capture (kept only with a Pine
\* marker) goes to save_script as source_code without source_raw, and
\* save_script unescapes it and strips its line feeds
NM_SaveDiagnostic ==
    /\ nm_pc = "once" /\ HasPineMarker(nm_out)
    /\ nm_out' = StripLF(IF HasEscapeMarker(nm_out)
                         THEN IF UnicodeEscapeFails(nm_out)
                              THEN FallbackUnescape(nm_out)
                              ELSE UnicodeEscapeDecode(nm_out)
                         ELSE nm_out)
    /\ nm_pc' = "saved"
    /\ UNCHANGED << nm_in, core_vars, overlay_vars, listing_vars, json_vars, pub_vars >>

NextNorm ==
    \/ NM_Normalize
    \/ NM_Again
    \/ NM_SaveDiagnostic

SpecNorm == InitNorm /\ [][NextNorm]_vars

\* ------------------------------------------------- handle_overlays
\* Number of elements of the page besides the body.
NumElements == 3

Elements == 1..NumElements

\* The element trees: ov_dom[i].parent is the parent of element i (0: the body);
\* the numbering is the document order, so the parent of an element is the
\* element before it, one of that element's ancestors, or the body.
RECURSIVE AncestorsOrSelf(_, _)
AncestorsOrSelf(dom, i) ==
    IF i = 0 THEN {0} ELSE {i} \cup AncestorsOrSelf(dom, dom[i].parent)

\* An element: a div or a button; whether it matches one of overlay_selectors;
\* whether it is a visible match of one of close_selectors whose click()
\* raises; the text of its own text nodes: 'source code', the Google sign-in
\* copy, or neither. Buttons have no element children and a close button is
\* not labelled 'source code'.
ElementKinds ==
    { k \in [tag : {"div", "button"}, overlay : BOOLEAN, close : BOOLEAN,
             text : {"none", "source", "google"}] :
        /\ k.close => (k.tag = "button" /\ k.text = "none") }

Doms ==
    { d \in [Elements -> [parent : 0..(NumElements - 1), kind : ElementKinds]] :
        \A i \in Elements :
            /\ d[i].parent \in (IF i = 1 THEN {0} ELSE AncestorsOrSelf(d, i - 1))
            /\ d[i].parent # 0 => d[d[i].parent].kind.tag = "div" }

\* e.querySelectorAll('*'): the elements below e
Descendants(dom, e) ==
    { n \in Elements : n # e /\ e \in AncestorsOrSelf(dom, n) }

\* (n.textContent || '').toLowerCase().includes(word): the text of n and of
\* everything below it
TextIncludes(dom, n, word) ==
    \E m \in Descendants(dom, n) \cup {n} : dom[m].kind.text = word

\* handle_overlays, overlay pass: hasSource, over the elements below e; of its
\* three tests the last, txt.includes('source code'), covers the other two
hasSource(dom, e) ==
    \E n \in Descendants(dom, e) : TextIncludes(dom, n, "source")

InitOverlays ==
    /\ CoreOff
    /\ PubOff
    /\ JsonOff
    /\ ListingOff
    /\ NormOff
    /\ ov_pc = "close"
    /\ ov_dom \in Doms
    /\ ov_hidden = {}

\* handle_overlays, the close buttons: a click that raises hides
\* document.querySelector(sel), the first match of the selector
OV_CloseButtons ==
    /\ ov_pc = "close"
    /\ LET matches == { e \in Elements : ov_dom[e].kind.close }
       IN  ov_hidden' = IF matches = {} THEN ov_hidden
                        ELSE ov_hidden \cup
                             { CHOOSE e \in matches : \A m \in matches : e <= m }
    /\ ov_pc' = "overlay"
    /\ UNCHANGED << ov_dom, core_vars, norm_vars, listing_vars, json_vars, pub_vars >>

\* handle_overlays, the overlay containers: every match without hasSource is
\* hidden
OV_OverlayContainers ==
    /\ ov_pc = "overlay"
    /\ ov_hidden' = ov_hidden \cup
           { e \in Elements : ov_dom[e].kind.overlay /\ ~hasSource(ov_dom, e) }
    /\ ov_pc' = "google"
    /\ UNCHANGED << ov_dom, core_vars, norm_vars, listing_vars, json_vars, pub_vars >>

\* handle_overlays, the Google sign-in modal: every div, dialog or section
\* whose textContent includes one of the keywords is hidden
OV_GoogleModal ==
    /\ ov_pc = "google"
    /\ ov_hidden' = ov_hidden \cup
           { n \in Elements : /\ ov_dom[n].kind.tag = "div"
                              /\ TextIncludes(ov_dom, n, "google") }
    /\ ov_pc' = "done"
    /\ UNCHANGED << ov_dom, core_vars, norm_vars, listing_vars, json_vars, pub_vars >>

NextOverlays ==
    \/ OV_CloseButtons
    \/ OV_OverlayContainers
    \/ OV_GoogleModal

SpecOverlays == InitOverlays /\ [][NextOverlays]_vars

\* ------------------------------------------------- generated listing pages
\* max_scroll_attempts of the modelled call (20 by default).
MaxScrollAttempts == 6

\* The script URLs the listing pages can show.
GenUrls == { <<ScriptPrefix>> \o id \o <<"/">> : id \in ScriptIds }

InitListing ==
    /\ CoreOff
    /\ PubOff
    /\ JsonOff
    /\ NormOff
    /\ OverlayOff
    /\ ls_pc = "visit"
    /\ ls_p = 2
    /\ ls_scripts \in SUBSET GenUrls
    /\ ls_no_new = 0
    /\ ls_hist = Empty

\* get_scripts_from_listing: one pass of "for p in range(2, max_scroll_attempts
\* + 1)"; raises: page.goto or a later call raises and the except around the
\* loop ends the visits
LS_Visit ==
    /\ ls_pc = "visit"
    /\ \E raises \in BOOLEAN, page_scripts \in SUBSET GenUrls :
         LET new_found == Cardinality(page_scripts \ ls_scripts)
             no_new_pages == IF new_found = 0 THEN ls_no_new + 1 ELSE ls_no_new
         IN  IF raises
             THEN /\ ls_pc' = "raised"
                  /\ UNCHANGED << ls_p, ls_scripts, ls_no_new, ls_hist >>
             ELSE /\ ls_scripts' = ls_scripts \cup page_scripts
                  /\ ls_hist' = Append(ls_hist, new_found > 0)
                  /\ ls_no_new' = no_new_pages
                  /\ IF new_found = 0 /\ no_new_pages >= 3
                     THEN ls_pc' = "stopped" /\ ls_p' = ls_p
                     ELSE /\ ls_p' = ls_p + 1
                          /\ ls_pc' = IF ls_p + 1 > MaxScrollAttempts
                                      THEN "exhausted" ELSE "visit"
    /\ UNCHANGED << core_vars, norm_vars, overlay_vars, json_vars, pub_vars >>

NextListing == LS_Visit

SpecListing == InitListing /\ [][NextListing]_vars

\* ------------------------------------------------- download_from_json
\* Number of URLs in the JSON file.
NumJsonUrls == 2

\* None, for a Published instant that could not be read.
NoInstant == 0

\* A Published instant in whole seconds, or NoInstant.
Instants == {NoInstant, 1, 2}

\* A listed URL: whether a .pine file of its script id is in the page
\* directory, the Published instant in that file and the one on the site.
JsonEntries ==
    { e \in [existing : BOOLEAN, local_dt : Instants, remote_dt : Instants] :
        ~e.existing => e.local_dt = NoInstant }

\* What the three calls scraper._find_local_file_for_url,
\* scraper._parse_published_from_file and scraper._fetch_remote_published do:
\* EnhancedTVScraper defines none of them, the first lookup raises
\* AttributeError.
HelperOutcomes == {"AttributeError"}

\* main, l.64-84: "download" when is_updated, else "skip". With remote_dt set
\* and local_dt None the print at l.76 reads remote_s, local_s and delta, which
\* only the other branch assigns: UnboundLocalError, caught at l.81, skip.
UpdateDecision(local_dt, remote_dt) ==
    IF remote_dt # NoInstant /\ local_dt # NoInstant
    THEN IF remote_dt > local_dt THEN "download" ELSE "skip"
    ELSE "skip"

\* What the subprocess meets: a capture saved, the page-visible text saved, a
\* protected script, an HTTP error page, no capture at all, page.goto raising,
\* or setup raising.
PageOutcomes == {"captured", "page_visible", "protected", "http_error",
                 "no_capture", "goto_raises", "setup_raises"}

\* tv_downloader_enhanced.main with --dump-copy-diagnostics: the process exit
\* code. dump_copy_diagnostics has a try/finally without except around the
\* page work, so only an exception that escapes it ends the process with 1.
returncode(page) == IF page \in {"goto_raises", "setup_raises"} THEN 1 ELSE 0

\* dump_copy_diagnostics: whether save_script wrote a .pine file
FileSaved(page) == page \in {"captured", "page_visible"}

InitJson ==
    /\ CoreOff
    /\ PubOff
    /\ NormOff
    /\ OverlayOff
    /\ ListingOff
    /\ dj_pc = "loop"
    /\ dj_i = 1
    /\ dj_cfg \in { c \in [force : BOOLEAN, check_updates : BOOLEAN, scraper : BOOLEAN] :
                      c.scraper => c.check_updates }
    /\ dj_urls \in [1..NumJsonUrls -> JsonEntries]
    /\ dj_counts = [succeeded |-> 0, skipped |-> 0, failed |-> 0]
    /\ dj_log = Empty

\* main: one pass of "for i, entry in enumerate(urls, 1)"
DJ_Entry ==
    /\ dj_pc = "loop"
    /\ \E h \in HelperOutcomes, page \in PageOutcomes :
         LET e == dj_urls[dj_i]
             decision ==
                 IF e.existing /\ ~dj_cfg.force
                 THEN IF dj_cfg.check_updates /\ dj_cfg.scraper
                      THEN IF h = "AttributeError" THEN "skip"
                           ELSE UpdateDecision(e.local_dt, e.remote_dt)
                      ELSE "skip"
                 ELSE "download"
             counted == IF decision = "skip" THEN "skipped"
                        ELSE IF returncode(page) # 0 THEN "failed"
                        ELSE "succeeded"
         IN  /\ decision = "skip" => page = "captured"
             /\ dj_counts' = [dj_counts EXCEPT ![counted] = @ + 1]
             /\ dj_log' = Append(dj_log,
                                 [started |-> decision = "download",
                                  page |-> page,
                                  saved |-> decision = "download" /\ FileSaved(page),
                                  counted |-> counted])
    /\ dj_i' = dj_i + 1
    /\ dj_pc' = IF dj_i = NumJsonUrls THEN "summary" ELSE "loop"
    /\ UNCHANGED << dj_cfg, dj_urls, core_vars, norm_vars, overlay_vars,
                    listing_vars, pub_vars >>

NextJson == DJ_Entry

SpecJson == InitJson /\ [][NextJson]_vars

\* --------------------------------------------------- scrape_pubdates
\* URLs handed to scrape_pubdates.run.
NumPubUrls == 3

\* args.concurrency of scrape_pubdates, the slots of its semaphore.
PubConcurrency == 2

\* The largest args.retries followed.
MaxRetries == 2

\* Pages of the shared browser that are open.
OpenPages == Cardinality({ i \in 1..NumPubUrls : sp_tasks[i].page })

\* run: the results list is allocated, the browser launched, one run_one task
\* created per URL; each waits for the semaphore.
InitPub ==
    /\ CoreOff
    /\ NormOff
    /\ OverlayOff
    /\ ListingOff
    /\ JsonOff
    /\ sp_run = "gather"
    /\ sp_retries \in 0..MaxRetries
    /\ sp_sem = PubConcurrency
    /\ sp_tasks = [i \in 1..NumPubUrls |->
                     [pc |-> "waiting", attempt |-> 0, page |-> FALSE,
                      result |-> "none"]]

\* run_one: async with sem
SP_Acquire(i) ==
    /\ sp_run = "gather" /\ sp_tasks[i].pc = "waiting" /\ sp_sem > 0
    /\ sp_sem' = sp_sem - 1
    /\ sp_tasks' = [sp_tasks EXCEPT ![i].pc = "loop"]
    /\ UNCHANGED << sp_run, sp_retries, core_vars, norm_vars, overlay_vars,
                    listing_vars, json_vars >>

\* worker: attempt += 1; page = await browser.new_page(), before the try: when
\* it raises the exception leaves worker and run_one, which frees its slot
SP_NewPage(i) ==
    /\ sp_run = "gather" /\ sp_tasks[i].pc = "loop"
    /\ \E opened \in BOOLEAN :
         IF opened
         THEN /\ sp_tasks' = [sp_tasks EXCEPT ![i] =
                                [@ EXCEPT !.pc = "try", !.attempt = @ + 1,
                                          !.page = TRUE]]
              /\ UNCHANGED sp_sem
         ELSE /\ sp_tasks' = [sp_tasks EXCEPT ![i] =
                                [@ EXCEPT !.pc = "raised", !.attempt = @ + 1]]
              /\ sp_sem' = sp_sem + 1
    /\ UNCHANGED << sp_run, sp_retries, core_vars, norm_vars, overlay_vars,
                    listing_vars, json_vars >>

\* worker: the try block.  It returns the record, or an exception (goto
\* failing, an HTTP status of 400 or more, extract_pubtext or parse_pubtext
\* raising) reaches the except: with attempts left the task sleeps for the
\* backoff, its page still open; without, it returns the error record.  A
\* return runs the finally, which closes the page, and run_one stores the
\* result and frees its slot.
SP_Attempt(i) ==
    /\ sp_run = "gather" /\ sp_tasks[i].pc = "try"
    /\ \E raised \in BOOLEAN :
         IF raised /\ sp_tasks[i].attempt <= sp_retries
         THEN /\ sp_tasks' = [sp_tasks EXCEPT ![i].pc = "backoff"]
              /\ UNCHANGED sp_sem
         ELSE /\ sp_tasks' = [sp_tasks EXCEPT ![i] =
                                [@ EXCEPT !.pc = "returned", !.page = FALSE,
                                          !.result = IF raised THEN "error"
                                                     ELSE "record"]]
              /\ sp_sem' = sp_sem + 1
    /\ UNCHANGED << sp_run, sp_retries, core_vars, norm_vars, overlay_vars,
                    listing_vars, json_vars >>

\* worker: the backoff sleep ends, continue: the finally closes the page
\* before the loop starts over
SP_Backoff(i) ==
    /\ sp_run = "gather" /\ sp_tasks[i].pc = "backoff"
    /\ sp_tasks' = [sp_tasks EXCEPT ![i] = [@ EXCEPT !.pc = "loop", !.page = FALSE]]
    /\ UNCHANGED << sp_run, sp_retries, sp_sem, core_vars, norm_vars, overlay_vars,
                    listing_vars, json_vars >>

\* run: await asyncio.gather(*tasks) returns when every task returned; the
\* finally closes the browser and the results are written
SP_GatherReturns ==
    /\ sp_run = "gather"
    /\ \A i \in 1..NumPubUrls : sp_tasks[i].pc = "returned"
    /\ sp_run' = "written"
    /\ UNCHANGED << sp_retries, sp_sem, sp_tasks, core_vars, norm_vars,
                    overlay_vars, listing_vars, json_vars >>

\* run: gather raises the exception of the first task that raised; the
\* finally closes the browser with every page, no results are written, and
\* the tasks still running are cancelled when the event loop shuts down
SP_GatherRaises ==
    /\ sp_run = "gather"
    /\ \E i \in 1..NumPubUrls : sp_tasks[i].pc = "raised"
    /\ sp_run' = "aborted"
    /\ sp_tasks' = [i \in 1..NumPubUrls |->
                      IF sp_tasks[i].pc \in {"returned", "raised"} THEN sp_tasks[i]
                      ELSE [sp_tasks[i] EXCEPT !.pc = "cancelled", !.page = FALSE]]
    /\ UNCHANGED << sp_retries, sp_sem, core_vars, norm_vars, overlay_vars,
                    listing_vars, json_vars >>

NextPub ==
    \/ \E i \in 1..NumPubUrls : SP_Acquire(i)
    \/ \E i \in 1..NumPubUrls : SP_NewPage(i)
    \/ \E i \in 1..NumPubUrls : SP_Attempt(i)
    \/ \E i \in 1..NumPubUrls : SP_Backoff(i)
    \/ SP_GatherReturns
    \/ SP_GatherRaises

SpecPub == InitPub /\ [][NextPub]_vars

\* ------------------------------------------------------------ claims, Spec
Returned == pc \in {"da_handle", "m_handle"}

\* C1: no Target is written by save_script (called from download_all or from the
\* single-URL flow of main) with text whose capture attempt was not accepted:
\* every payload handed to save_script passed validation.
C1_NoStaleSave ==
    \A u \in Urls : saves[u].path # "none" => saves[u].valid

\* C2: within one run no two distinct Target URLs are saved with clipboard text
\* (source_raw) of the same SHA-256 fingerprint.
C2_SavedFingerprintsDistinct ==
    \A u \in Urls : \A w \in Urls :
        (u # w /\ saves[u].path = "raw" /\ saves[w].path = "raw")
            => sha256(saves[u].text) # sha256(saves[w].text)

\* C3: whenever extract_pine_source returns a non-empty source_code, that text
\* was captured on an attempt that passed the snippet cross-check and the
\* fingerprint dedup.
C3_ReturnedSourceValidated ==
    (Returned /\ result.source_code # Empty) => codeValid

\* C4: the claim's condition, stated on the texts: both non-empty and neither
\* one's stripped first 200 characters occurs in the other.
C4_Mismatch ==
    /\ page_visible # Empty /\ source_code # Empty
    /\ ~Occurs(Take(Strip(page_visible), 200), source_code)
    /\ ~Occurs(Take(Strip(source_code), 200), page_visible)

C7_PayloadIsRaw ==
    sv_pc = "saved" => sv_file = JoinLines(header(sv_res)) \o sv_res.source_raw

\* C8: in the single-URL flow the file left after the re-read and the rewrite is
\* the header followed by exactly the captured raw text.
C8_VerifiedFileIsHeaderPlusRaw ==
    sv_pc = "verified" => sv_file = JoinLines(header(sv_res)) \o sv_res.source_raw

\* C9: with resume, a Target the earlier run saved is not in the worklist and is
\* not navigated to.
C9_SavedTargetSkipped ==
    (rs_resume /\ rs_pc \in {"work", "done"}) =>
        \A u \in rs_saved :
            /\ u \notin rs_nav
            /\ \A i \in 1..Len(rs_worklist) : rs_worklist[i].url # u

\* C10: a Target whose navigation failed is navigated to once, gets no capture
\* attempt and no soft or hard restart, and is not retried within the run.
C10_NavFailureTerminal ==
    (mode = "batch" /\ navFailed) =>
        (navCount <= 1 /\ capCount = 0 /\ softCount = 0 /\ hardCount = 0)

\* C10 as amended: an invocation of extract_pine_source whose navigation fails
\* returns the error without a capture attempt and without source; download_all
\* invokes extraction at most 3 times for the Target, with at most one soft
\* restart.
C10_NavFailureEndsInvocation ==
    /\ (Returned /\ result.error \in {"HTTP 404", "HTTP No response", "Timeout"}) =>
          (xCaps = 0 /\ result.source_code = Empty /\ result.source_raw = Empty)
    /\ mode = "batch" => (attempt <= 3 /\ softCount <= 1)

C10_Witness ==
    /\ mode = "batch" /\ pc = "da_handle" /\ attempt = 3 /\ softCount = 1
    /\ navFailed /\ navCount = 3 /\ result.error = "HTTP 404" /\ xCaps = 0

\* The errors of the access classification.
C11_Classified == {"invite-only", "protected", "not open-source"}

\* C11: the invocation that classifies a Target invite-only, protected or not
\* open-source returns without a capture attempt and without a restart, and
\* download_all then ends the Target: no further attempt, no soft restart,
\* skipped_protected counted once and failed not counted.
C11_ClassifiedIsTerminal ==
    [][ /\ (pc = "x_classify" /\ pc' # "x_opentab") =>
              /\ result'.error \in C11_Classified
              /\ result'.source_code = Empty /\ result'.source_raw = Empty
              /\ xCaps' = 0 /\ capCount' = capCount /\ navCount' = navCount
              /\ softCount' = softCount /\ hardCount' = hardCount
        /\ (pc = "da_handle" /\ result.error \in C11_Classified) =>
              /\ pc' = "da_finally" /\ succeeded'
              /\ attempt' = attempt /\ softCount' = softCount /\ saves' = saves
              /\ stats'.skipped_protected = stats.skipped_protected + 1
              /\ stats'.failed = stats.failed
        /\ (pc = "da_finally" /\ result.error \in C11_Classified) =>
              /\ stats' = stats
              /\ pc' \in {"target", "summary"} ]_vars

C11_Witness ==
    /\ mode = "batch" /\ pc = "da_finally" /\ attempt = 1
    /\ result.error = "not open-source" /\ succeeded
    /\ navCount = 1 /\ capCount = 0 /\ softCount = 0 /\ hardCount = 0
    /\ stats.skipped_protected = 1 /\ stats.failed = 0

\* The markers as the claim names them, read off the page text without regard
\* to case.
C12_OpenMarker == \E i \in 1..Len(page_text) : page_text[i] = "Open-source"

C12_InviteMarker ==
    \E i \in 1..Len(page_text) : page_text[i] = "Invite-only"

C12_ProtectedMarker ==
    \E i \in 1..(Len(page_text) - 1) :
        page_text[i] = "Protected" /\ page_text[i + 1] = "script"

\* C12: the classification is a function of the three markers: open only with
\* the open-source marker and neither other one; open-source with invite-only
\* gives invite-only; invite-only with protected gives invite-only; no marker
\* gives not open-source.
C12_ClassificationByMarkers ==
    [][ pc = "x_classify" =>
          /\ (pc' = "x_opentab") <=>
                (C12_OpenMarker /\ ~C12_InviteMarker /\ ~C12_ProtectedMarker)
          /\ (pc' = "x_opentab") => result'.error = ""
          /\ C12_InviteMarker => result'.error = "invite-only"
          /\ (C12_ProtectedMarker /\ ~C12_InviteMarker) => result'.error = "protected"
          /\ (~C12_OpenMarker /\ ~C12_InviteMarker /\ ~C12_ProtectedMarker) =>
                result'.error = "not open-source" ]_vars

C12_Witness ==
    /\ pc \in {"da_handle", "m_handle"} /\ result.error = "invite-only"
    /\ xCaps = 0

\* Engines that are open: the one self.browser refers to, and the orphans.
C15_OpenEngines ==
    session.orphans + (IF session.browser = "open" THEN 1 ELSE 0)

C16_CleanupNeverRaises ==
    cleanup_log.called =>
        /\ cleanup_log.raised = "none"
        /\ cleanup_log.close = cleanup_log.had_browser
        /\ cleanup_log.stop = cleanup_log.had_playwright

C16_Witness ==
    /\ cleanup_log.called /\ cleanup_log.close_failed /\ cleanup_log.stop
    /\ pc = "s_setup_raised" /\ session.browser = "closed"

\* The outcome counters of the summary, added up.
OutcomeSum ==
    stats.downloaded + stats.skipped_protected + stats.skipped_no_code
        + stats.failed

\* C13: as long as every setup succeeds, download_all lets no exception
\* through while it handles the worklist, and it reaches the summary with one
\* terminal outcome counted for every Target.
C13_BatchSurvives ==
    ~setup_failed =>
        /\ pc = "s_returned" => exc = "none"
        /\ pc = "s_summary" => OutcomeSum = NumTargets

\* C20: at the summary the total processed, len(self.results), is the number
\* of Targets of the worklist and the sum of the outcome counters.
C20_TotalIsWorklist ==
    pc = "s_summary" => (results = NumTargets /\ results = OutcomeSum)

\* C17: the version tag of an extracted Target, and the Pine Version line of
\* its saved file, is the run of digits after the first version marker of the
\* normalized source, and empty only without such a marker.
C17_VersionFromMarker ==
    sv_pc = "saved" =>
        /\ sv_res.version = version_match(sv_res.source_code)
        /\ SplitLines(sv_file)[7] =
              KeyLine("Pine Version:", version_match(sv_res.source_code))

\* C18: the Type line of a saved file is Library with a library declaration
\* in the source, else Strategy with a strategy declaration, else Indicator,
\* whatever the case of the letters, and it agrees with the flags is_library
\* and is_strategy of the result.
C18_TypeFromMarkers ==
    sv_pc = "saved" =>
        LET low == lower(sv_res.source_code)
            lib == \E i \in 1..Len(low) : low[i] = "library("
            strat == \E i \in 1..Len(low) : low[i] = "strategy("
            label == SplitLines(sv_file)[8]
        IN  /\ label = KeyLine("Type:", IF lib THEN <<"Library">>
                                        ELSE IF strat THEN <<"Strategy">>
                                        ELSE <<"Indicator">>)
            /\ (label = KeyLine("Type:", <<"Library">>)) <=> sv_res.is_library
            /\ (label = KeyLine("Type:", <<"Strategy">>)) <=>
                  (~sv_res.is_library /\ sv_res.is_strategy)

\* C19: in a file written by save_script the header block, which ends with
\* the bare comment line, is followed by exactly one empty line and then by
\* the first line of the payload.
C19_OneBlankLine ==
    sv_pc = "saved" =>
        LET lines == SplitLines(sv_file)
        IN  /\ Len(lines) >= 13
            /\ lines[11] = <<"/", "/">>
            /\ lines[12] = Empty
            /\ lines[13] # Empty

\* C14: a SIGINT or SIGTERM that arrives while URLs are queued or in flight
\* does not leave run() waiting with no task left that could end the wait: run
\* goes on to write the progress file and to return.
C14_SignalStopsWaiting ==
    ~( /\ SHOULD_STOP /\ run_pc = "join" /\ unfinished_tasks > 0
       /\ \A w \in 1..Concurrency : tasks[w].pc \in {"done", "cancelled"} )

\* C21: the date normalizers never raise: for every publish text, also a
\* month, day and year whose day the month does not have and a relative text
\* whose amount cannot be subtracted from now, parse_pubtext,
\* parse_date_string and the parsing part of extract_exact_publish_date return
\* (an instant or the unparsed result) instead of raising.
C21_NormalizersNeverRaise ==
    dt_pc = "parsed" => dt_out.raised = "none"

\* C22: a failed 3rd capture attempt, empty or stale, is followed by the hard
\* restart with the navigation to the Target and the Source tab, and then by
\* one more capture attempt (the positional click after the tab, in
\* positional mode, counts as one) before the function returns
\* clipboard_extraction_failed.
C22_CaptureAfterHardRestart ==
    [][ (x_attempt = 3 /\ pc \in {"x_recover", "x_validate"} /\ ~codeValid') =>
          /\ hardCount' = hardCount + 1
          /\ navCount' = navCount + 1
          /\ (pc' = "x_capture" \/ positional_click) ]_vars

\* C23: for each Target of a batch run no hard restart (cleanup and setup,
\* the browser relaunched) happens before a soft restart (_restart_context)
\* has been tried for that Target.
C23_SoftBeforeHard ==
    (mode = "batch" /\ hardCount > 0) => softCount > 0

C25_ShortCircuit(o) ==
    /\ Len(tried) <= Len(o) /\ tried = SubSeq(o, 1, Len(tried))
    /\ \A i \in 1..(Len(tried) - 1) : ~IsPlausible(channels[tried[i]])
    /\ tried # Empty
    /\ IF IsPlausible(channels[tried[Len(tried)]])
       THEN source_code = channels[tried[Len(tried)]]
       ELSE source_code = Empty /\ tried = o

\* C25: within one capture attempt the channels are read in the fixed order
\* attribute, in-page buffer, OS clipboard, positional click, the positional
\* click only after the others produced nothing, and the attempt stops at the
\* first plausible result.
C25_FixedChannelOrder ==
    pc = "c_done" =>
        C25_ShortCircuit(<<"attribute", "buffer", "clipboard", "positional">>)

\* C25 as amended: with positional_click the positional click is read first
\* and the copy-button channels follow only when it produced nothing; without
\* it the positional click is never made.  The copy-button channels are read
\* in the order attribute, in-page buffer, OS clipboard, and the attempt stops
\* at the first plausible result.
C25_OrderByMode ==
    pc = "c_done" =>
        C25_ShortCircuit(IF positional_click
                         THEN <<"positional", "attribute", "buffer", "clipboard">>
                         ELSE <<"attribute", "buffer", "clipboard">>)

C25_Witness ==
    /\ pc = "c_done" /\ positional_click
    /\ tried = <<"positional", "attribute", "buffer", "clipboard">>
    /\ channels.buffer = <<"x">> /\ source_code = <<"V", "x">>

\* C26: every page on which a capture attempt is made had a copy-capture init
\* script added to it before it navigated to the Target, whether setup, the
\* restart inside extract_pine_source or _restart_context made the page.
C26_HooksBeforeCapture == ~session.capture_unhooked

\* C27: the fingerprint registry only grows.  An entry is never changed or
\* removed; an entry is added only by the validation of a capture that passed
\* the snippet cross-check and whose fingerprint had no owner, and its owner
\* is the Target then handled; soft and hard restarts leave the registry as
\* it is.
C27_RegistryOnlyGrows ==
    [][ /\ \A h \in Hashes :
             /\ seen[h] # NoOwner => seen'[h] = seen[h]
             /\ (seen[h] = NoOwner /\ seen'[h] # NoOwner) =>
                    /\ pc = "x_validate"
                    /\ h = sha256(source_code)
                    /\ _snippet_matches(page_visible, source_code)
                    /\ seen'[h] = idx
        /\ (hardCount' # hardCount \/ softCount' # softCount) => seen' = seen
      ]_vars

\* C27 witness: after a soft and a hard restart the registry holds the
\* fingerprints of two Targets, each with its own first owner.
C27_Witness ==
    /\ mode = "batch" /\ hardCount > 0 /\ softCount > 0
    /\ \E h1, h2 \in Hashes : h1 # h2 /\ seen[h1] = 1 /\ seen[h2] = 2

C29_RestoredPageLive == session.restored_page \in {"none", "open"}

\* C30: a result that extract_pine_source returns with a non-empty
\* source_code carries no error, and a result that carries an error has an
\* empty source_code.
C30_SourceOrError == Returned => (result.source_code = Empty \/ result.error = "")

\* ------------------------------------------------------------ claims, SpecNorm
\* CRLF and lone CR replaced by LF, in one pass from left to right.
RECURSIVE C31_LineFeeds(_)
C31_LineFeeds(s) ==
    IF s = Empty THEN Empty
    ELSE IF Head(s) = CR /\ Len(s) > 1 /\ s[2] = LF
         THEN <<LF>> \o C31_LineFeeds(Tail(Tail(s)))
    ELSE IF Head(s) = CR THEN <<LF>> \o C31_LineFeeds(Tail(s))
    ELSE <<Head(s)>> \o C31_LineFeeds(Tail(s))

\* C31: the text _normalize_source returns holds no CR, and for a text with
\* none of the markers \n, \t, \u it is the input with CRLF and lone CR
\* replaced by LF and nothing else changed.
C31_NoCarriageReturn ==
    nm_pc = "once" =>
        /\ \A i \in 1..Len(nm_out) : nm_out[i] # CR
        /\ ~HasEscapeMarker(nm_in) => nm_out = C31_LineFeeds(nm_in)

\* C31 witness: a text with a CRLF, a lone CR and a backslash but no marker
\* comes back with the two line ends unified and the backslash kept.
C31_Witness ==
    /\ nm_pc = "once"
    /\ nm_in = <<CR, LF, CR, BSL>>
    /\ nm_out = <<LF, LF, BSL>>

\* C32: _normalize_source applied to its own output returns it unchanged, and
\* the text it returned is not unescaped again on the way to the file.
C32_Idempotent ==
    [][ nm_pc = "once" =>
          /\ nm_pc' = "twice" => nm_out' = nm_out
          /\ nm_pc' = "saved" => nm_out' = StripLF(nm_out) ]_vars

\* ------------------------------------------------------------ claims, SpecOverlays
\* C33: no element hidden by a step of handle_overlays contains the text
\* 'source code' (and so the Source-code tab or button), in itself or in an
\* element below it.
C33_SourceNeverHidden ==
    \A e \in ov_hidden : ~TextIncludes(ov_dom, e, "source")

\* ------------------------------------------------------------ claims, SpecListing
\* C34: the visits of generated pages stop early only when the last three
\* pages visited yielded no new script URL.
C34_ThreeConsecutive ==
    ls_pc = "stopped" =>
        /\ Len(ls_hist) >= 3
        /\ \A i \in (Len(ls_hist) - 2)..Len(ls_hist) : ~ls_hist[i]

\* ------------------------------------------------------------ claims, SpecJson
\* C35: a download is started for a listed URL exactly when no local .pine
\* file exists for it, or --force is given, or update checking is on and the
\* remote Published instant is later than the local one or known while the
\* local one is not; every other URL is counted as skipped.
C35_DownloadExactlyWhen ==
    \A i \in 1..Len(dj_log) :
        LET e == dj_urls[i]
            newer == /\ e.remote_dt # NoInstant
                     /\ (e.local_dt = NoInstant \/ e.remote_dt > e.local_dt)
        IN  /\ dj_log[i].started <=>
                   (~e.existing \/ dj_cfg.force \/ (dj_cfg.check_updates /\ newer))
            /\ ~dj_log[i].started => dj_log[i].counted = "skipped"

\* C36: a URL is counted as succeeded only if its download left a .pine
\* file; a protected page, an HTTP error page and a page without capture are
\* counted as failed; the three counts add up to the URLs handled.
C36_SucceededHasFile ==
    /\ \A i \in 1..Len(dj_log) :
           /\ dj_log[i].counted = "succeeded" => dj_log[i].saved
           /\ (dj_log[i].started /\
               dj_log[i].page \in {"protected", "http_error", "no_capture"})
                  => dj_log[i].counted = "failed"
    /\ dj_counts.succeeded + dj_counts.skipped + dj_counts.failed = Len(dj_log)

C38_FetchedOnce ==
    /\ [](\A i, j \in 1..Len(ck_results) : i # j => ck_results[i] # ck_results[j])
    /\ [][ \A w \in 1..Concurrency :
              (tasks[w].pc # "fetch" /\ tasks'[w].pc = "fetch")
                  => tasks'[w].item \notin progress ]_vars

\* ------------------------------------------------------------- claims, SpecPub
\* C39: scrape_pubdates.worker opens at most retries + 1 pages for a URL and
\* ends by returning a record or an error record, never by raising; the page
\* of an attempt is closed before the next attempt opens one; and at most
\* args.concurrency pages are open at a time.
C39_BoundedAttempts ==
    /\ [](/\ \A i \in 1..NumPubUrls :
               /\ sp_tasks[i].attempt <= sp_retries + 1
               /\ sp_tasks[i].pc # "raised"
               /\ sp_tasks[i].pc = "returned" =>
                      sp_tasks[i].result \in {"record", "error"}
          /\ OpenPages <= PubConcurrency)
    /\ [][ \A i \in 1..NumPubUrls :
             sp_tasks'[i].attempt > sp_tasks[i].attempt => ~sp_tasks[i].page ]_vars

=============================================================================
